---- MODULE Spec2Model ----
(***************************************************************************)
(* Autofill-Graph: the knowledge-graph store (GraphStorage, IndexedDB),    *)
(* the traversal engine (GraphQuery), the feedback ledger                  *)
(* (FeedbackManager, chrome.storage.local) and the learner (GraphLearning).*)
(*                                                                         *)
(* Confidences are fixed-point hundredths: 80 stands for 0.8.  Node and    *)
(* edge ids are positive integers; 0 stands for the empty string ''.       *)
(* Strings that the code inspects (labels, userEdit) are sequences of      *)
(* one-character strings.                                                  *)
(***************************************************************************)
EXTENDS Integers, Sequences, FiniteSets, TLC

VARIABLES
  db,        \* GraphStorage.db: the two object stores and their indexes
  history,   \* chrome.storage.local[FEEDBACK_STORE_KEY]
  nextId,    \* number of ids generated so far (Date.now()-random ids are fresh)
  pre,       \* the store and the ledger as they were when the last call began
  last,      \* the last completed call: its name, argument and resolved value
  tasks,     \* message handlers in flight, each suspended at an await
  trav       \* the local variables of a running bfs

vars == <<db, history, nextId, pre, last, tasks, trav>>

----------------------------------------------------------------------------
(* Values *)

\* What IndexedDB's get and Array.find give for a missing key (a falsy value).
Undefined == [id |-> 0]

Range(s) == {s[i] : i \in DOMAIN s}

Min(a, b) == IF a < b THEN a ELSE b

Max(a, b) == IF a > b THEN a ELSE b

\* The records of a set as an array in ascending primary-key order, the order
\* in which IndexedDB's getAll returns them.
RECURSIVE SortById(_)
SortById(S) ==
  IF S = {} THEN <<>>
  ELSE LET m == CHOOSE r \in S : \A o \in S : r.id <= o.id
       IN <<m>> \o SortById(S \ {m})

----------------------------------------------------------------------------
(* GraphStorage: IndexedDB object stores 'nodes' and 'edges', keyPath 'id', *)
(* with index 'type' on nodes and indexes 'source', 'target', 'type' on     *)
(* edges.  An index is a set of <<key, primary key>> entries.               *)

EmptyDb ==
  [nodes |-> {}, nodeType |-> {},
   edges |-> {}, edgeSource |-> {}, edgeTarget |-> {}, edgeType |-> {}]

\* IDBObjectStore.put with an in-line key that leaves the old record in place.
StorePutKeepOld(records, rec) ==
  IF \E r \in records : r.id = rec.id THEN records ELSE records \cup {rec}

\* IDBObjectStore.put: the record replaces whatever is stored under its key.
StorePut(records, rec) == {r \in records : r.id # rec.id} \cup {rec}

\* IDBObjectStore.delete
StoreDelete(records, id) == {r \in records : r.id # id}

\* An index update that adds the new entry without dropping the stale one.
IndexPutKeepStale(index, key, id) == index \cup {<<key, id>>}

\* The index entry of a record that is put: the entry of the record it
\* replaces goes, the entry for the new key value comes.
IndexPut(index, key, id) == {e \in index : e[2] # id} \cup {<<key, id>>}

\* The index entries of a deleted record go with it.
IndexDelete(index, id) == {e \in index : e[2] # id}

\* IDBIndex.getAll(key): the records the index lists under key.
IndexGetAll(records, index, key) ==
  SortById({r \in records : <<key, r.id>> \in index})

\* An addNode that writes field by field over the stored record: the label
\* of a stored node survives.
AddNodeMerge(d, node) ==
  [d EXCEPT !.nodes = StorePut(@, IF \E r \in d.nodes : r.id = node.id
                                  THEN [node EXCEPT !.label =
                                          (CHOOSE r \in d.nodes : r.id = node.id).label]
                                  ELSE node),
            !.nodeType = IndexPut(@, node.type, node.id)]

AddNode(d, node) ==
  [d EXCEPT !.nodes = StorePut(@, node),
            !.nodeType = IndexPut(@, node.type, node.id)]

GetNode(d, nodeId) ==
  IF \E r \in d.nodes : r.id = nodeId
  THEN CHOOSE r \in d.nodes : r.id = nodeId
  ELSE Undefined

GetNodesByType(d, type) == IndexGetAll(d.nodes, d.nodeType, type)

GetAllNodes(d) == SortById(d.nodes)

\* A deleteNode that cascades to the edges that start or end at the node.
DeleteNodeCascade(d, nodeId) ==
  LET kept == {edge \in d.edges : edge.source # nodeId /\ edge.target # nodeId}
      keptIds == {edge.id : edge \in kept}
  IN [d EXCEPT !.nodes = StoreDelete(@, nodeId),
               !.nodeType = IndexDelete(@, nodeId),
               !.edges = kept,
               !.edgeSource = {e \in @ : e[2] \in keptIds},
               !.edgeTarget = {e \in @ : e[2] \in keptIds},
               !.edgeType = {e \in @ : e[2] \in keptIds}]

\* A deleteNode that drops the index entries and leaves the record.
DeleteNodeIndexOnly(d, nodeId) ==
  [d EXCEPT !.nodeType = IndexDelete(@, nodeId)]

DeleteNode(d, nodeId) ==
  [d EXCEPT !.nodes = StoreDelete(@, nodeId),
            !.nodeType = IndexDelete(@, nodeId)]

\* An addEdge whose edge is not entered in the 'target' index.
AddEdgeNoTargetIndex(d, edge) ==
  [d EXCEPT !.edges = StorePut(@, edge),
            !.edgeSource = IndexPut(@, edge.source, edge.id),
            !.edgeType = IndexPut(@, edge.type, edge.id)]

AddEdge(d, edge) ==
  [d EXCEPT !.edges = StorePut(@, edge),
            !.edgeSource = IndexPut(@, edge.source, edge.id),
            !.edgeTarget = IndexPut(@, edge.target, edge.id),
            !.edgeType = IndexPut(@, edge.type, edge.id)]

GetEdge(d, edgeId) ==
  IF \E r \in d.edges : r.id = edgeId
  THEN CHOOSE r \in d.edges : r.id = edgeId
  ELSE Undefined

GetOutgoing(d, sourceId) == IndexGetAll(d.edges, d.edgeSource, sourceId)

GetIncoming(d, targetId) == IndexGetAll(d.edges, d.edgeTarget, targetId)

GetEdgesByType(d, type) == IndexGetAll(d.edges, d.edgeType, type)

GetAllEdges(d) == SortById(d.edges)

DeleteEdge(d, edgeId) ==
  [d EXCEPT !.edges = StoreDelete(@, edgeId),
            !.edgeSource = IndexDelete(@, edgeId),
            !.edgeTarget = IndexDelete(@, edgeId),
            !.edgeType = IndexDelete(@, edgeId)]

----------------------------------------------------------------------------
(* Inputs of the store operations *)

NodeIds == {1, 2}

NodeTypes == {"skill", "role"}

EdgeIds == {1, 2}

EdgeTypes == {"hasSkill", "workedAt"}

Str_React == <<"R", "e">>

Str_Vue == <<"V">>

NodeInputs ==
  [id : NodeIds, type : NodeTypes, label : {Str_React, Str_Vue},
   confidence : {95}, frequency : {1}, source : {"resume"}]

EdgeInputs ==
  [id : EdgeIds, source : NodeIds, target : NodeIds, type : EdgeTypes,
   confidence : {90}, inferred : {FALSE}]

NoCall == [op |-> "none", arg |-> 0, ret |-> 0]

Snapshot == [db |-> db, history |-> history]

IdleTrav == [pc |-> "idle"]

----------------------------------------------------------------------------
(* SpecStore: the store operations called one after the other *)

InitStore ==
  /\ db = EmptyDb
  /\ history = <<>>
  /\ nextId = 0
  /\ pre = [db |-> EmptyDb, history |-> <<>>]
  /\ last = NoCall
  /\ tasks = <<>>
  /\ trav = IdleTrav

StoreCall(op, arg, ret, d) ==
  /\ db' = d
  /\ pre' = Snapshot
  /\ last' = [op |-> op, arg |-> arg, ret |-> ret]
  /\ UNCHANGED <<history, nextId, tasks, trav>>

AddNodeCall == \E node \in NodeInputs :
  StoreCall("addNode", node, node, AddNode(db, node))

GetNodeCall == \E nodeId \in NodeIds :
  StoreCall("getNode", nodeId, GetNode(db, nodeId), db)

GetNodesByTypeCall == \E type \in NodeTypes :
  StoreCall("getNodesByType", type, GetNodesByType(db, type), db)

DeleteNodeCall == \E nodeId \in NodeIds :
  StoreCall("deleteNode", nodeId, Undefined, DeleteNode(db, nodeId))

AddEdgeCall == \E edge \in EdgeInputs :
  StoreCall("addEdge", edge, edge, AddEdge(db, edge))

DeleteEdgeCall == \E edgeId \in EdgeIds :
  StoreCall("deleteEdge", edgeId, Undefined, DeleteEdge(db, edgeId))

NextStore ==
  \/ AddNodeCall
  \/ GetNodeCall
  \/ GetNodesByTypeCall
  \/ DeleteNodeCall
  \/ AddEdgeCall
  \/ DeleteEdgeCall

SpecStore == InitStore /\ [][NextStore]_vars

----------------------------------------------------------------------------
(* Claims about the store, checked under SpecStore *)

\* C5: addNode is an upsert keyed by id. After addNode(n') the store holds
\* exactly one node with the id of n', getNode returns n' in full, whatever
\* was stored under that id before, and the call resolves with n' (no error).
C5_UpsertById ==
  last.op = "addNode" =>
    /\ Cardinality({r \in db.nodes : r.id = last.arg.id}) = 1
    /\ GetNode(db, last.arg.id) = last.arg
    /\ last.ret = last.arg

\* An addNode(n') that followed an addNode(n) with the same id and another
\* label.
C5_Witness ==
  /\ last.op = "addNode"
  /\ GetNode(pre.db, last.arg.id) # Undefined
  /\ GetNode(pre.db, last.arg.id).label # last.arg.label
  /\ GetNode(db, last.arg.id) = last.arg

\* C6: after any sequence of addNode and deleteNode, getNodesByType(t)
\* returns exactly the stored nodes whose type is t, each once.
C6_TypeIndexExact ==
  \A t \in NodeTypes :
    /\ Range(GetNodesByType(db, t)) = {r \in Range(GetAllNodes(db)) : r.type = t}
    /\ Len(GetNodesByType(db, t)) = Cardinality(Range(GetNodesByType(db, t)))

\* An upsert that changed the type of a stored node to the type of the other
\* stored node.
C6_Witness ==
  /\ last.op = "addNode"
  /\ GetNode(pre.db, last.arg.id) # Undefined
  /\ GetNode(pre.db, last.arg.id).type # last.arg.type
  /\ Len(GetNodesByType(db, last.arg.type)) = 2

\* The edge stores listed under one key of each index.
EdgesUnder(d, e) ==
  [byId |-> e = GetEdge(d, e.id),
   out |-> e \in Range(GetOutgoing(d, e.source)),
   in |-> e \in Range(GetIncoming(d, e.target)),
   byType |-> e \in Range(GetEdgesByType(d, e.type))]

\* C7: an edge is returned by getEdge iff it is returned by getOutgoing of
\* its source, getIncoming of its target and getEdgesByType of its type, and
\* each of the three lists an edge only under the edge's current key.
C7_EdgeIndexesAgree ==
  /\ \A e \in EdgeInputs \cup db.edges :
       LET u == EdgesUnder(db, e)
       IN /\ u.byId <=> u.out
          /\ u.byId <=> u.in
          /\ u.byId <=> u.byType
  /\ \A n \in NodeIds :
       /\ \A e \in Range(GetOutgoing(db, n)) : e.source = n /\ e = GetEdge(db, e.id)
       /\ \A e \in Range(GetIncoming(db, n)) : e.target = n /\ e = GetEdge(db, e.id)
  /\ \A t \in EdgeTypes :
       \A e \in Range(GetEdgesByType(db, t)) : e.type = t /\ e = GetEdge(db, e.id)

\* An edge re-submitted with another source, target and type.
C7_Witness ==
  /\ last.op = "addEdge"
  /\ GetEdge(pre.db, last.arg.id) # Undefined
  /\ GetEdge(pre.db, last.arg.id).source # last.arg.source
  /\ GetEdge(pre.db, last.arg.id).target # last.arg.target
  /\ GetEdge(pre.db, last.arg.id).type # last.arg.type
  /\ EdgesUnder(db, last.arg).in

\* C31: deleteNode(id) removes only the node with that id and its index
\* entries. Every other node and every edge is as it was, the edges whose
\* source or target is the deleted id included: getOutgoing, getIncoming and
\* getEdgesByType still return them.
C31_DeleteNodeFrame ==
  last.op = "deleteNode" =>
    /\ db.nodes = {node \in pre.db.nodes : node.id # last.arg}
    /\ db.nodeType = {e \in pre.db.nodeType : e[2] # last.arg}
    /\ db.edges = pre.db.edges
    /\ \A edge \in pre.db.edges :
          (edge.source = last.arg \/ edge.target = last.arg) =>
            /\ edge \in Range(GetOutgoing(db, edge.source))
            /\ edge \in Range(GetIncoming(db, edge.target))
            /\ edge \in Range(GetEdgesByType(db, edge.type))
    /\ \A id \in NodeIds :
          /\ GetOutgoing(db, id) = GetOutgoing(pre.db, id)
          /\ GetIncoming(db, id) = GetIncoming(pre.db, id)
    /\ \A type \in EdgeTypes : GetEdgesByType(db, type) = GetEdgesByType(pre.db, type)

\* deleteNode has removed a stored node that one edge starts at and another
\* ends at, with the other node still stored.
C31_Witness ==
  /\ last.op = "deleteNode"
  /\ GetNode(pre.db, last.arg) # Undefined
  /\ GetNode(db, last.arg) = Undefined
  /\ db.nodes # {}
  /\ \E out \in db.edges, in \in db.edges :
        /\ out.source = last.arg /\ out.target # last.arg
        /\ in.target = last.arg /\ in.source # last.arg

----------------------------------------------------------------------------
(* Strings: String.prototype.toLowerCase, includes and trim *)

UpperToLower == [R |-> "r", V |-> "v", G |-> "g"]

ToLowerCase(str) ==
  [i \in DOMAIN str |->
     IF str[i] \in DOMAIN UpperToLower THEN UpperToLower[str[i]] ELSE str[i]]

Includes(str, sub) ==
  \E i \in 0..(Len(str) - Len(sub)) : SubSeq(str, i + 1, i + Len(sub)) = sub

RECURSIVE TrimStart(_)
TrimStart(str) ==
  IF str # <<>> /\ Head(str) = " " THEN TrimStart(Tail(str)) ELSE str

RECURSIVE TrimEnd(_)
TrimEnd(str) ==
  IF str # <<>> /\ str[Len(str)] = " "
  THEN TrimEnd(SubSeq(str, 1, Len(str) - 1))
  ELSE str

Trim(str) == TrimEnd(TrimStart(str))

\* GraphStorage.searchNodesByLabel: a scan of the whole nodes store.
SearchNodesByLabel(d, pattern) ==
  SelectSeq(GetAllNodes(d),
            LAMBDA node : Includes(ToLowerCase(node.label), ToLowerCase(pattern)))

----------------------------------------------------------------------------
(* FeedbackManager and GraphLearning.  A call is a task that runs from one  *)
(* await to the next; s is what the tasks share: the store, the ledger in   *)
(* chrome.storage.local and the ids generated so far.                       *)

\* Generated ids that are the ids of stored nodes and edges.
GenIdOfStored(k) == k

\* `${Date.now()}-${Math.random()...}`: the k-th generated node or edge id.
GenId(k) == 100 + k

NoUpdates == [nodesUpdated |-> 0, edgesUpdated |-> 0, newNodesCreated |-> 0]

\* The record recordFeedback builds from the feedback it is given.
FeedbackRecord(feedback, id) ==
  [id |-> id,
   fieldId |-> feedback.fieldId,
   userEdit |-> feedback.userEdit,
   sourceNodeId |-> feedback.sourceNodeId,
   feedback |-> IF feedback.feedback = "" THEN "ignored" ELSE feedback.feedback,
   affectedNodeIds |-> feedback.affectedNodeIds]

\* A verdict's adjustment of a node's confidence.
Adjustment(verdict) ==
  CASE verdict = "correct" -> 5
    [] verdict = "partially_correct" -> 2
    [] verdict = "incorrect" -> -10
    [] verdict = "ignored" -> -2
    [] OTHER -> 0

\* _updateNodeConfidence with the floor and the ceiling of the clamp swapped
\* for no floor at all.
UpdateNodeConfidenceNoFloor(node, feedback) ==
  [node EXCEPT !.confidence =
     Min(100, (IF @ = 0 THEN 80 ELSE @) + Adjustment(feedback.feedback))]

\* GraphLearning._updateNodeConfidence; confidence || 0.8 reads a stored 0 as 0.8.
UpdateNodeConfidence(node, feedback) ==
  LET currentConfidence == IF node.confidence = 0 THEN 80 ELSE node.confidence
      newConfidence ==
        Max(30, Min(100, currentConfidence + Adjustment(feedback.feedback)))
  IN [node EXCEPT !.confidence = newConfidence]

\* A test that takes only a label equal to the text for a match.
EntityExistsExact(d, label) == \E node \in d.nodes : node.label = label

\* GraphLearning._entityExists
EntityExists(d, label) == Len(SearchNodesByLabel(d, label)) > 0

\* The node _createEntityFromUserInput builds.
NewEntity(label, id) ==
  [id |-> id, type |-> "skill", label |-> Trim(label),
   confidence |-> 80, frequency |-> 1, source |-> "user_feedback"]

\* The edge _createEntityFromUserInput builds.
NewEntityEdge(id, relatedNodeId, nodeId) ==
  [id |-> id, source |-> relatedNodeId, target |-> nodeId, type |-> "hasSkill",
   confidence |-> 70, inferred |-> TRUE]

\* Array.find over the ledger.
GetFeedbackById(hist, feedbackId) ==
  IF \E i \in DOMAIN hist : hist[i].id = feedbackId
  THEN hist[CHOOSE i \in DOMAIN hist :
              hist[i].id = feedbackId /\ \A j \in 1..(i - 1) : hist[j].id # feedbackId]
  ELSE Undefined

\* FeedbackManager.getFeedbackForNode
GetFeedbackForNode(hist, nodeId) ==
  SelectSeq(hist, LAMBDA f : f.sourceNodeId = nodeId \/ nodeId \in f.affectedNodeIds)

\* A task of the given call, about to run its first step.
NewTask(op, pc) ==
  [op |-> op, pc |-> pc, record |-> Undefined, h |-> <<>>, feedbackId |-> 0,
   feedback |-> Undefined, node |-> Undefined, edge |-> Undefined,
   updates |-> NoUpdates]

\* recordFeedback up to its first await: the record is built, the ledger asked for.
RecordFeedbackTask(op, feedback, id) ==
  [NewTask(op, "rf_get") EXCEPT !.record = FeedbackRecord(feedback, id)]

\* processFeedback up to its first await: the ledger is asked for.
ProcessFeedbackTask(feedbackId) ==
  [NewTask("processFeedback", "pf_find") EXCEPT !.feedbackId = feedbackId]

\* Where processFeedback goes after the confidence update: the frequency update.
FrequencyPc(feedback) ==
  IF feedback.sourceNodeId # 0 THEN "pf_getNode2" ELSE "done"

\* Where processFeedback goes after the confidence update: the correction branch.
CorrectionPc(feedback) ==
  IF feedback.feedback = "incorrect" /\ feedback.userEdit # <<>>
  THEN "pf_exists"
  ELSE FrequencyPc(feedback)

\* recordFeedback: the ledger is read, the record pushed on the copy.
RfGet(t, s) ==
  [t |-> [t EXCEPT !.pc = "rf_set", !.h = Append(s.history, t.record)],
   s |-> s]

\* recordFeedback: the copy is written back.  handleFeedback goes on to
\* processFeedback(record.id).
RfSet(t, s) ==
  [t |-> [t EXCEPT !.pc = IF t.op = "handleFeedback" THEN "pf_find" ELSE "done",
                   !.h = <<>>,
                   !.feedbackId = t.record.id],
   s |-> [s EXCEPT !.history = t.h]]

\* A lookup that returns empty-handed for an unknown id where processFeedback
\* throws.
PfFindNoThrow(t, s) ==
  LET feedback == GetFeedbackById(s.history, t.feedbackId)
  IN [t |-> IF feedback = Undefined
            THEN [t EXCEPT !.pc = "done"]
            ELSE [t EXCEPT !.feedback = feedback,
                           !.pc = IF feedback.sourceNodeId # 0
                                  THEN "pf_getNode"
                                  ELSE CorrectionPc(feedback)],
      s |-> s]

\* processFeedback: the record is looked up; 'Feedback not found' is thrown.
PfFind(t, s) ==
  LET feedback == GetFeedbackById(s.history, t.feedbackId)
  IN [t |-> IF feedback = Undefined
            THEN [t EXCEPT !.pc = "failed"]
            ELSE [t EXCEPT !.feedback = feedback,
                           !.pc = IF feedback.sourceNodeId # 0
                                  THEN "pf_getNode"
                                  ELSE CorrectionPc(feedback)],
      s |-> s]

\* processFeedback: the source node is read, its new confidence computed.
PfGetNode(t, s) ==
  LET node == GetNode(s.db, t.feedback.sourceNodeId)
  IN [t |-> IF node # Undefined
            THEN [t EXCEPT !.node = UpdateNodeConfidence(node, t.feedback),
                           !.pc = "pf_addNode"]
            ELSE [t EXCEPT !.pc = CorrectionPc(t.feedback)],
      s |-> s]

\* processFeedback: the updated node is written.
PfAddNode(t, s) ==
  [t |-> [t EXCEPT !.pc = CorrectionPc(t.feedback),
                   !.node = Undefined,
                   !.updates.nodesUpdated = @ + 1],
   s |-> [s EXCEPT !.db = AddNode(@, t.node)]]

\* processFeedback: _entityExists(userEdit); a new node is built when no
\* label matches.
PfExists(t, s) ==
  IF EntityExists(s.db, t.feedback.userEdit)
  THEN [t |-> [t EXCEPT !.pc = FrequencyPc(t.feedback)], s |-> s]
  ELSE [t |-> [t EXCEPT !.pc = "pf_createNode",
                        !.node = NewEntity(t.feedback.userEdit, GenId(s.nextId + 1))],
        s |-> [s EXCEPT !.nextId = @ + 1]]

\* _createEntityFromUserInput: the new node is written; the edge from the
\* related node is built when there is one.
PfCreateNode(t, s) ==
  IF t.feedback.sourceNodeId # 0
  THEN [t |-> [t EXCEPT !.pc = "pf_createEdge",
                        !.node = Undefined,
                        !.edge = NewEntityEdge(GenId(s.nextId + 1),
                                               t.feedback.sourceNodeId, t.node.id)],
        s |-> [s EXCEPT !.db = AddNode(@, t.node), !.nextId = @ + 1]]
  ELSE [t |-> [t EXCEPT !.pc = FrequencyPc(t.feedback),
                        !.node = Undefined,
                        !.updates.newNodesCreated = @ + 1],
        s |-> [s EXCEPT !.db = AddNode(@, t.node)]]

\* _createEntityFromUserInput: the new edge is written.
PfCreateEdge(t, s) ==
  [t |-> [t EXCEPT !.pc = FrequencyPc(t.feedback),
                   !.edge = Undefined,
                   !.updates.newNodesCreated = @ + 1],
   s |-> [s EXCEPT !.db = AddEdge(@, t.edge)]]

\* A frequency update that counts a node's use once only: a node already
\* counted keeps its frequency.
PfGetNode2Once(t, s) ==
  LET node == GetNode(s.db, t.feedback.sourceNodeId)
  IN [t |-> IF node # Undefined /\ node.frequency = 1
            THEN [t EXCEPT !.node = [node EXCEPT !.frequency = @ + 1],
                           !.pc = "pf_addNode2"]
            ELSE [t EXCEPT !.pc = "done"],
      s |-> s]

\* processFeedback: the source node is read again, its frequency raised on
\* the copy.
PfGetNode2(t, s) ==
  LET node == GetNode(s.db, t.feedback.sourceNodeId)
  IN [t |-> IF node # Undefined
            THEN [t EXCEPT !.node = [node EXCEPT !.frequency = @ + 1],
                           !.pc = "pf_addNode2"]
            ELSE [t EXCEPT !.pc = "done"],
      s |-> s]

\* processFeedback: the copy is written.
PfAddNode2(t, s) ==
  [t |-> [t EXCEPT !.pc = "done", !.node = Undefined],
   s |-> [s EXCEPT !.db = AddNode(@, t.node)]]

Ended(t) == t.pc \in {"done", "failed"}

\* One step of a task: from the await it is suspended at to the next one.
TaskStep(t, s) ==
  CASE t.pc = "rf_get" -> RfGet(t, s)
    [] t.pc = "rf_set" -> RfSet(t, s)
    [] t.pc = "pf_find" -> PfFind(t, s)
    [] t.pc = "pf_getNode" -> PfGetNode(t, s)
    [] t.pc = "pf_addNode" -> PfAddNode(t, s)
    [] t.pc = "pf_exists" -> PfExists(t, s)
    [] t.pc = "pf_createNode" -> PfCreateNode(t, s)
    [] t.pc = "pf_createEdge" -> PfCreateEdge(t, s)
    [] t.pc = "pf_getNode2" -> PfGetNode2(t, s)
    [] t.pc = "pf_addNode2" -> PfAddNode2(t, s)

\* A call that nothing interleaves with: its task runs to its end.
RECURSIVE RunToEnd(_, _)
RunToEnd(t, s) ==
  IF Ended(t) THEN [t |-> t, s |-> s]
  ELSE LET r == TaskStep(t, s) IN RunToEnd(r.t, r.s)

RecordFeedback(s, feedback, id) ==
  RunToEnd(RecordFeedbackTask("recordFeedback", feedback, id), s)

ProcessFeedback(s, feedbackId) == RunToEnd(ProcessFeedbackTask(feedbackId), s)

NoSummary == [processed |-> 0, errors |-> 0, totalUpdates |-> NoUpdates]

\* The loop of processAllFeedback over the rest of the ledger it read.
RECURSIVE ProcessAllLoop(_, _, _)
ProcessAllLoop(rest, summary, s) ==
  IF rest = <<>> THEN [summary |-> summary, s |-> s]
  ELSE LET r == ProcessFeedback(s, Head(rest).id)
           u == r.t.updates
       IN IF r.t.pc = "failed"
          THEN ProcessAllLoop(Tail(rest), [summary EXCEPT !.errors = @ + 1], r.s)
          ELSE ProcessAllLoop(
                 Tail(rest),
                 [summary EXCEPT
                    !.processed = @ + 1,
                    !.totalUpdates.nodesUpdated = @ + u.nodesUpdated,
                    !.totalUpdates.edgesUpdated = @ + u.edgesUpdated,
                    !.totalUpdates.newNodesCreated = @ + u.newNodesCreated],
                 r.s)

ProcessAllFeedback(s) == ProcessAllLoop(s.history, NoSummary, s)

\* The number of ledger records that count for an edge in
\* refineRelationshipWeights.
CorrectUses(hist, edge) ==
  Len(SelectSeq(GetFeedbackForNode(hist, edge.source),
                LAMBDA f : f.feedback = "correct" /\ edge.target \in f.affectedNodeIds))

\* The refined confidence without the cap at 1.0.
RefinedConfidenceNoCap(confidence) ==
  (IF confidence = 0 THEN 70 ELSE confidence) + 5

\* Math.min((edge.metadata.confidence || 0.7) + 0.05, 1.0)
RefinedConfidence(confidence) ==
  Min((IF confidence = 0 THEN 70 ELSE confidence) + 5, 100)

\* The loop of refineRelationshipWeights over the rest of the edges it read.
RECURSIVE RefineLoop(_, _, _)
RefineLoop(rest, updated, s) ==
  IF rest = <<>> THEN [edgesRefined |-> updated, s |-> s]
  ELSE LET edge == Head(rest)
       IN IF CorrectUses(s.history, edge) > 2
          THEN RefineLoop(
                 Tail(rest), updated + 1,
                 [s EXCEPT !.db = AddEdge(@, [edge EXCEPT !.confidence =
                                                 RefinedConfidence(@)])])
          ELSE RefineLoop(Tail(rest), updated, s)

RefineRelationshipWeights(s) == RefineLoop(GetAllEdges(s.db), 0, s)

----------------------------------------------------------------------------
(* SpecLearn: the ledger grows by recordFeedback and the learner's          *)
(* operations are called one after the other, each running to its end.     *)

MaxHistory == 3

MaxFrequency == 4

MaxGenerated == 2

Str_Re == <<"R", "e">>

Str_Go == <<"G", "o">>

\* The graph the learner starts from: a role, a skill, and the role's edge
\* to the skill.
InitialGraph(nodeConfidence, edgeConfidence) ==
  AddEdge(
    AddNode(
      AddNode(EmptyDb,
              [id |-> 1, type |-> "role", label |-> Str_Re,
               confidence |-> nodeConfidence, frequency |-> 1, source |-> "resume"]),
      [id |-> 2, type |-> "skill", label |-> Str_Vue,
       confidence |-> 95, frequency |-> 1, source |-> "resume"]),
    [id |-> 1, source |-> 1, target |-> 2, type |-> "hasSkill",
     confidence |-> edgeConfidence, inferred |-> FALSE])

\* The confidences the role and its edge start with.
InitConfidences == {<<0, 97>>, <<35, 0>>, <<97, 97>>}

\* The feedback that callers report.
FeedbackInputs ==
  {[fieldId |-> "skills", sourceNodeId |-> 1, feedback |-> "correct",
    userEdit |-> <<>>, affectedNodeIds |-> {2}],
   [fieldId |-> "skills", sourceNodeId |-> 1, feedback |-> "incorrect",
    userEdit |-> Str_Go, affectedNodeIds |-> {}],
   [fieldId |-> "skills", sourceNodeId |-> 1, feedback |-> "partially_correct",
    userEdit |-> <<>>, affectedNodeIds |-> {}],
   [fieldId |-> "skills", sourceNodeId |-> 1, feedback |-> "",
    userEdit |-> <<>>, affectedNodeIds |-> {}]}

Shared == [db |-> db, history |-> history, nextId |-> nextId]

\* The caps that keep the counters of the model finite.
WithinCaps(s) ==
  /\ Len(s.history) <= MaxHistory
  /\ s.nextId <= MaxGenerated
  /\ \A node \in s.db.nodes : node.frequency <= MaxFrequency

InitLearn ==
  /\ db \in {InitialGraph(c[1], c[2]) : c \in InitConfidences}
  /\ history = <<>>
  /\ nextId = 0
  /\ pre = [db |-> db, history |-> <<>>]
  /\ last = NoCall
  /\ tasks = <<>>
  /\ trav = IdleTrav

LearnCall(op, arg, ret, s) ==
  /\ WithinCaps(s)
  /\ db' = s.db
  /\ history' = s.history
  /\ nextId' = s.nextId
  /\ pre' = Snapshot
  /\ last' = [op |-> op, arg |-> arg, ret |-> ret]
  /\ UNCHANGED <<tasks, trav>>

RecordFeedbackCall == \E feedback \in FeedbackInputs :
  \E r \in {RecordFeedback(Shared, feedback, Len(history) + 1)} :
     LearnCall("recordFeedback", feedback, r.t.record, r.s)

\* processFeedback(feedbackId) for the id of a ledger record or an unknown id.
ProcessFeedbackCall == \E feedbackId \in 1..(Len(history) + 1) :
  \E r \in {ProcessFeedback(Shared, feedbackId)} :
     LearnCall("processFeedback", feedbackId,
               [error |-> r.t.pc = "failed", updates |-> r.t.updates], r.s)

ProcessAllFeedbackCall ==
  \E r \in {ProcessAllFeedback(Shared)} :
     LearnCall("processAllFeedback", 0, r.summary, r.s)

RefineRelationshipWeightsCall ==
  \E r \in {RefineRelationshipWeights(Shared)} :
     LearnCall("refineRelationshipWeights", 0, [edgesRefined |-> r.edgesRefined], r.s)

NextLearn ==
  \/ RecordFeedbackCall
  \/ ProcessFeedbackCall
  \/ ProcessAllFeedbackCall
  \/ RefineRelationshipWeightsCall

SpecLearn == InitLearn /\ [][NextLearn]_vars

----------------------------------------------------------------------------
(* Claims about the learner, checked under SpecLearn *)

C1_InRange(d) ==
  /\ \A node \in d.nodes : 30 <= node.confidence /\ node.confidence <= 100
  /\ \A edge \in d.edges : 0 <= edge.confidence /\ edge.confidence <= 100

\* C1: a learner operation (processFeedback, processAllFeedback,
\* refineRelationshipWeights) that starts with every node confidence in
\* [0.3, 1.0] and every edge confidence in [0, 1.0] ends with them in the
\* same ranges, over any ledger; so the ranges hold after any sequence of
\* operations that starts within them.
C1_ConfidenceClamp == C1_InRange(pre.db) => C1_InRange(db)

\* refineRelationshipWeights has just capped the edge at 1.0 (0.97 + 0.05),
\* after processFeedback had capped the source node at 1.0.
C1_Witness ==
  /\ last.op = "refineRelationshipWeights"
  /\ last.ret.edgesRefined = 1
  /\ C1_InRange(pre.db)
  /\ GetEdge(pre.db, 1).confidence = 97
  /\ GetEdge(db, 1).confidence = 100
  /\ GetNode(db, 1).confidence = 100
  /\ GetNode(db, 1).frequency > 1

C2_Delta(verdict) ==
  CASE verdict = "correct" -> 5
    [] verdict = "partially_correct" -> 2
    [] verdict = "incorrect" -> -10
    [] verdict = "ignored" -> -2

\* The record that processFeedback(last.arg) has processed.
C2_Feedback == GetFeedbackById(pre.history, last.arg)

\* processFeedback has processed a record with one of the four verdicts
\* whose source node was stored.
C2_Applies ==
  /\ last.op = "processFeedback"
  /\ C2_Feedback # Undefined
  /\ C2_Feedback.sourceNodeId # 0
  /\ GetNode(pre.db, C2_Feedback.sourceNodeId) # Undefined
  /\ C2_Feedback.feedback \in {"correct", "partially_correct", "incorrect", "ignored"}

C2_Before == GetNode(pre.db, C2_Feedback.sourceNodeId)

C2_After == GetNode(db, C2_Feedback.sourceNodeId)

\* C2: processFeedback on a record whose source node is stored with
\* confidence c (any c in [0, 1], 0 included) and frequency f leaves the
\* node with confidence min(1.0, max(0.3, c + delta)) and frequency f + 1.
C2_ProcessFeedbackDelta ==
  C2_Applies =>
    /\ C2_After.confidence =
         Min(100, Max(30, C2_Before.confidence + C2_Delta(C2_Feedback.feedback)))
    /\ C2_After.frequency = C2_Before.frequency + 1

\* C2 for the stored confidences other than 0.
C2_ProcessFeedbackDeltaNonZero ==
  (C2_Applies /\ C2_Before.confidence # 0) =>
    /\ C2_After.confidence =
         Min(100, Max(30, C2_Before.confidence + C2_Delta(C2_Feedback.feedback)))
    /\ C2_After.frequency = C2_Before.frequency + 1

----------------------------------------------------------------------------
(* SpecFeedback: RECORD_FEEDBACK messages arrive while earlier ones are     *)
(* still being handled.  Each message starts a handleFeedback task; a task  *)
(* runs from one await to the next, and between two awaits of one task any  *)
(* other task may run.  pre and last keep their initial values here: pre is *)
(* the store and the ledger before the first message.                       *)

MaxTasks == 2

\* The feedback carried by the messages.
MessageInputs ==
  {[fieldId |-> "skills", sourceNodeId |-> 1, feedback |-> "correct",
    userEdit |-> <<>>, affectedNodeIds |-> {2}],
   [fieldId |-> "skills", sourceNodeId |-> 1, feedback |-> "incorrect",
    userEdit |-> Str_Go, affectedNodeIds |-> {}],
   [fieldId |-> "role", sourceNodeId |-> 3, feedback |-> "incorrect",
    userEdit |-> Str_Go, affectedNodeIds |-> {}]}

InitFeedback ==
  /\ db = InitialGraph(80, 90)
  /\ history = <<>>
  /\ nextId = 0
  /\ pre = [db |-> db, history |-> <<>>]
  /\ last = NoCall
  /\ tasks = <<>>
  /\ trav = IdleTrav

\* onMessage RECORD_FEEDBACK: handleFeedback runs to the first await of
\* recordFeedback.  The record's id is fresh: the task's number stands for it.
HandleFeedback == \E feedback \in MessageInputs :
  /\ Len(tasks) < MaxTasks
  /\ tasks' = Append(tasks,
                     RecordFeedbackTask("handleFeedback", feedback, Len(tasks) + 1))
  /\ UNCHANGED <<db, history, nextId, pre, last, trav>>

\* Task i, suspended at pc, runs to its next await.
Resume(i, pc) ==
  /\ tasks[i].pc = pc
  /\ \E r \in {TaskStep(tasks[i], Shared)} :
       /\ tasks' = [tasks EXCEPT ![i] = r.t]
       /\ db' = r.s.db
       /\ history' = r.s.history
       /\ nextId' = r.s.nextId
  /\ UNCHANGED <<pre, last, trav>>

RfGetStep == \E i \in DOMAIN tasks : Resume(i, "rf_get")

RfSetStep == \E i \in DOMAIN tasks : Resume(i, "rf_set")

PfFindStep == \E i \in DOMAIN tasks : Resume(i, "pf_find")

PfGetNodeStep == \E i \in DOMAIN tasks : Resume(i, "pf_getNode")

PfAddNodeStep == \E i \in DOMAIN tasks : Resume(i, "pf_addNode")

PfExistsStep == \E i \in DOMAIN tasks : Resume(i, "pf_exists")

PfCreateNodeStep == \E i \in DOMAIN tasks : Resume(i, "pf_createNode")

PfCreateEdgeStep == \E i \in DOMAIN tasks : Resume(i, "pf_createEdge")

PfGetNode2Step == \E i \in DOMAIN tasks : Resume(i, "pf_getNode2")

PfAddNode2Step == \E i \in DOMAIN tasks : Resume(i, "pf_addNode2")

NextFeedback ==
  \/ HandleFeedback
  \/ RfGetStep
  \/ RfSetStep
  \/ PfFindStep
  \/ PfGetNodeStep
  \/ PfAddNodeStep
  \/ PfExistsStep
  \/ PfCreateNodeStep
  \/ PfCreateEdgeStep
  \/ PfGetNode2Step
  \/ PfAddNode2Step

SpecFeedback == InitFeedback /\ [][NextFeedback]_vars

----------------------------------------------------------------------------
(* Claims about concurrent feedback, checked under SpecFeedback *)

C3_Clamp(c) == Min(100, Max(30, c))

\* The handlers that have run to their end and updated the confidence of
\* node n, and whose record is in the ledger.
C3_Updaters(n) ==
  {i \in DOMAIN tasks :
     /\ tasks[i].pc = "done"
     /\ tasks[i].record \in Range(history)
     /\ tasks[i].feedback.sourceNodeId = n
     /\ tasks[i].updates.nodesUpdated = 1}

\* The handlers, ended or not, whose record names node n.
C3_Touching(n) == {i \in DOMAIN tasks : tasks[i].record.sourceNodeId = n}

\* C3: when processFeedback has run for two records that name the same
\* source node, interleaved in any way, the node's confidence is what the
\* two clamped deltas give when applied one after the other in some order,
\* and its frequency has grown by exactly 2.
C3_NoLostUpdate ==
  \A n \in {1, 2} : \A i, j \in C3_Updaters(n) :
    (i # j /\ C3_Touching(n) = {i, j}) =>
      LET c == GetNode(pre.db, n).confidence
          di == C2_Delta(tasks[i].feedback.feedback)
          dj == C2_Delta(tasks[j].feedback.feedback)
      IN /\ GetNode(db, n).confidence \in
              {C3_Clamp(C3_Clamp(c + di) + dj), C3_Clamp(C3_Clamp(c + dj) + di)}
         /\ GetNode(db, n).frequency = GetNode(pre.db, n).frequency + 2

\* The handlers whose recordFeedback call has completed.
C4_Recorded == {i \in DOMAIN tasks : tasks[i].pc \notin {"rf_get", "rf_set"}}

\* C4: the ledger is append-only, also with several recordFeedback calls in
\* flight: after n completed calls it holds n records, among them the record
\* of every completed call.
C4_AppendOnly ==
  /\ Len(history) = Cardinality(C4_Recorded)
  /\ \A i \in C4_Recorded : tasks[i].record \in Range(history)

----------------------------------------------------------------------------
(* SpecStoreConcurrent: addNode and deleteNode calls in flight at once.     *)
(* A call opens its own readwrite transaction on the nodes store and queues *)
(* one request; IndexedDB runs the request, with the index updates it       *)
(* entails, as one step, and the call's promise resolves.                   *)

MaxCalls == 3

\* The nodes submitted for the one contended id.
ContendedNodeInputs == {node \in NodeInputs : node.id = 1}

InitStoreConcurrent ==
  /\ db = EmptyDb
  /\ history = <<>>
  /\ nextId = 0
  /\ pre = [db |-> EmptyDb, history |-> <<>>]
  /\ last = NoCall
  /\ tasks = <<>>
  /\ trav = IdleTrav

\* A call up to its await: the transaction is open, the request queued.
StoreTask(op, arg) == [op |-> op, arg |-> arg, pc |-> "pending"]

AddNodeBegin == \E node \in ContendedNodeInputs :
  /\ Len(tasks) < MaxCalls
  /\ tasks' = Append(tasks, StoreTask("addNode", node))
  /\ UNCHANGED <<db, history, nextId, pre, last, trav>>

DeleteNodeBegin == \E nodeId \in {1} :
  /\ Len(tasks) < MaxCalls
  /\ tasks' = Append(tasks, StoreTask("deleteNode", nodeId))
  /\ UNCHANGED <<db, history, nextId, pre, last, trav>>

\* The request of a pending addNode runs and succeeds.
AddNodeSuccess == \E i \in DOMAIN tasks :
  /\ tasks[i].op = "addNode"
  /\ tasks[i].pc = "pending"
  /\ db' = AddNode(db, tasks[i].arg)
  /\ tasks' = [tasks EXCEPT ![i].pc = "resolved"]
  /\ UNCHANGED <<history, nextId, pre, last, trav>>

\* The request of a pending deleteNode runs and succeeds.
DeleteNodeSuccess == \E i \in DOMAIN tasks :
  /\ tasks[i].op = "deleteNode"
  /\ tasks[i].pc = "pending"
  /\ db' = DeleteNode(db, tasks[i].arg)
  /\ tasks' = [tasks EXCEPT ![i].pc = "resolved"]
  /\ UNCHANGED <<history, nextId, pre, last, trav>>

NextStoreConcurrent ==
  \/ AddNodeBegin
  \/ DeleteNodeBegin
  \/ AddNodeSuccess
  \/ DeleteNodeSuccess

SpecStoreConcurrent == InitStoreConcurrent /\ [][NextStoreConcurrent]_vars

\* The nodes submitted by the addNode calls whose request has run.
C8_Written ==
  {tasks[i].arg : i \in {j \in DOMAIN tasks :
                           tasks[j].op = "addNode" /\ tasks[j].pc = "resolved"}}

\* C8: writes are serialized.  Whatever calls are in flight, a stored node
\* is one of the submitted nodes in full, and what a reader's transaction
\* sees through getNode it sees through getNodesByType of the node's type,
\* and the reverse.
C8_SerializedWrites ==
  /\ \A nodeId \in NodeIds :
       GetNode(db, nodeId) # Undefined => GetNode(db, nodeId) \in C8_Written
  /\ \A nodeId \in NodeIds :
       GetNode(db, nodeId) # Undefined =>
         GetNode(db, nodeId) \in
           Range(GetNodesByType(db, GetNode(db, nodeId).type))
  /\ \A type \in NodeTypes : \A node \in Range(GetNodesByType(db, type)) :
       GetNode(db, node.id) = node /\ node.type = type

\* Two addNode calls for the same id, with nodes of different type and
\* label, were in flight together and both have run; a third call is
\* still pending.
C8_Witness ==
  \E i, j \in DOMAIN tasks :
    /\ tasks[i].op = "addNode" /\ tasks[j].op = "addNode"
    /\ tasks[i].pc = "resolved" /\ tasks[j].pc = "resolved"
    /\ tasks[i].arg.type # tasks[j].arg.type
    /\ tasks[i].arg.label # tasks[j].arg.label
    /\ GetNode(db, 1) = tasks[i].arg
    /\ i > j
    /\ \E k \in DOMAIN tasks : tasks[k].pc = "pending"

----------------------------------------------------------------------------
(* GraphQuery.bfs.  visited is the Map in insertion order, a sequence of    *)
(* <<node id, depth>> entries; queue is the array of [nodeId, depth] pairs. *)

\* A test that takes every target for unvisited.
NeverVisited(visited, nodeId) == FALSE

\* A Map whose has() never finds a key.
VisitedHasNever(visited, nodeId) == FALSE

VisitedHas(visited, nodeId) == \E i \in DOMAIN visited : visited[i][1] = nodeId

\* Map.set: a new key is appended, the value of an old key is replaced in
\* place.
VisitedSet(visited, nodeId, depth) ==
  IF VisitedHas(visited, nodeId)
  THEN [i \in DOMAIN visited |->
          IF visited[i][1] = nodeId THEN <<nodeId, depth>> ELSE visited[i]]
  ELSE Append(visited, <<nodeId, depth>>)

\* Map.get
VisitedGet(visited, nodeId) ==
  visited[CHOOSE i \in DOMAIN visited : visited[i][1] = nodeId][2]

\* A loop that also expands the nodes found at maxDepth.
ExpandsThroughMaxDepth(depth, maxDepth) == depth <= maxDepth

\* The negation of `if (depth >= maxDepth) continue`.
Expands(depth, maxDepth) == ~(depth >= maxDepth)

\* The for loop of bfs over the rest of the outgoing edges of a node at depth.
RECURSIVE BfsEdges(_, _, _, _)
BfsEdges(rest, depth, visited, queue) ==
  IF rest = <<>> THEN [visited |-> visited, queue |-> queue]
  ELSE LET target == Head(rest).target
       IN IF ~VisitedHas(visited, target)
          THEN BfsEdges(Tail(rest), depth,
                        VisitedSet(visited, target, depth + 1),
                        Append(queue, <<target, depth + 1>>))
          ELSE BfsEdges(Tail(rest), depth, visited, queue)

\* bfs up to its while loop.
BfsTrav(startNodeId, maxDepth) ==
  [pc |-> "bfs", startNodeId |-> startNodeId, maxDepth |-> maxDepth,
   visited |-> VisitedSet(<<>>, startNodeId, 0),
   queue |-> <<<<startNodeId, 0>>>>]

\* One iteration of the while loop of bfs.
BfsIterate(tr, d) ==
  LET nodeId == Head(tr.queue)[1]
      depth == Head(tr.queue)[2]
      r == BfsEdges(GetOutgoing(d, nodeId), depth, tr.visited, Tail(tr.queue))
  IN IF Expands(depth, tr.maxDepth)
     THEN [tr EXCEPT !.visited = r.visited, !.queue = r.queue]
     ELSE [tr EXCEPT !.queue = Tail(tr.queue)]

----------------------------------------------------------------------------
(* SpecTraverse: a traversal over a stored graph *)

MaxEdges == 4

MaxDepthArg == 3

TravNodeIds == {1, 2, 3}

\* The edge from source to target; its id makes getOutgoing list the edges
\* of a node in ascending order of target.
TravEdge(source, target) ==
  [id |-> 10 * source + target, source |-> source, target |-> target,
   type |-> "relatedTo", confidence |-> 90, inferred |-> FALSE]

\* The store after addEdge of each of the given edges.
RECURSIVE AddEdges(_, _)
AddEdges(d, E) ==
  IF E = {} THEN d
  ELSE LET e == CHOOSE x \in E : TRUE IN AddEdges(AddEdge(d, e), E \ {e})

TravGraphs ==
  {AddEdges(EmptyDb, E) :
     E \in {F \in SUBSET {TravEdge(a, b) : a \in TravNodeIds, b \in TravNodeIds} :
              Cardinality(F) <= MaxEdges}}

InitTraverse ==
  /\ db \in TravGraphs
  /\ history = <<>>
  /\ nextId = 0
  /\ pre = [db |-> db, history |-> <<>>]
  /\ last = NoCall
  /\ tasks = <<>>
  /\ trav = IdleTrav

BfsCall == \E startNodeId \in TravNodeIds : \E maxDepth \in 0..MaxDepthArg :
  /\ trav.pc = "idle"
  /\ trav' = BfsTrav(startNodeId, maxDepth)
  /\ UNCHANGED <<db, history, nextId, pre, last, tasks>>

BfsLoop ==
  /\ trav.pc = "bfs"
  /\ trav.queue # <<>>
  /\ trav' = BfsIterate(trav, db)
  /\ UNCHANGED <<db, history, nextId, pre, last, tasks>>

BfsReturn ==
  /\ trav.pc = "bfs"
  /\ trav.queue = <<>>
  /\ trav' = [trav EXCEPT !.pc = "done"]
  /\ last' = [op |-> "bfs", arg |-> <<trav.startNodeId, trav.maxDepth>>,
              ret |-> trav.visited]
  /\ UNCHANGED <<db, history, nextId, pre, tasks>>

NextTraverse ==
  \/ BfsCall
  \/ BfsLoop
  \/ BfsReturn

SpecTraverse == InitTraverse /\ [][NextTraverse]_vars

----------------------------------------------------------------------------
(* Claims about bfs, checked under SpecTraverse *)

\* The targets of the stored edges that leave a node of S.
C10_Successors(S) == {e.target : e \in {x \in db.edges : x.source \in S}}

\* The ids reachable from start by following at most k outgoing edges.
RECURSIVE C10_Within(_, _)
C10_Within(start, k) ==
  IF k = 0 THEN {start}
  ELSE C10_Within(start, k - 1) \cup C10_Successors(C10_Within(start, k - 1))

\* The least number of outgoing edges that lead from start to a reachable id.
C10_MinHops(start, nodeId) ==
  CHOOSE k \in 0..Cardinality(TravNodeIds) :
    /\ nodeId \in C10_Within(start, k)
    /\ k = 0 \/ nodeId \notin C10_Within(start, k - 1)

\* C9: the map bfs(start, d) returns, for any graph, cyclic ones included,
\* any start id and any d >= 0, holds start with depth 0 and no id with a
\* depth greater than d.
C9_DepthBound ==
  last.op = "bfs" =>
    /\ VisitedHas(last.ret, last.arg[1])
    /\ VisitedGet(last.ret, last.arg[1]) = 0
    /\ \A i \in DOMAIN last.ret : last.ret[i][2] <= last.arg[2]

\* bfs(1, 1) has returned on a graph with the cycle 1 -> 2 -> 1 and the
\* edge 2 -> 3: the map holds 1 and 2 and stops short of 3.
C9_Witness ==
  /\ last.op = "bfs"
  /\ last.arg = <<1, 1>>
  /\ {TravEdge(1, 2), TravEdge(2, 1), TravEdge(2, 3)} \subseteq db.edges
  /\ last.ret = <<<<1, 0>>, <<2, 1>>>>

\* C10: bfs(start, d) returns exactly the ids reachable from start over at
\* most d outgoing edges, each once and with its least hop count (so a node
\* first reached at depth d is in the map and what only its edges lead to
\* is not), and a depth that the map holds while bfs runs is the id's least
\* hop count already: it is never overwritten.
C10_ExactMinDepths ==
  /\ trav.pc \in {"bfs", "done"} =>
       \A i \in DOMAIN trav.visited :
         /\ trav.visited[i][2] = C10_MinHops(trav.startNodeId, trav.visited[i][1])
         /\ \A j \in DOMAIN trav.visited : trav.visited[j][1] = trav.visited[i][1] => j = i
  /\ last.op = "bfs" =>
       /\ {last.ret[i][1] : i \in DOMAIN last.ret} = C10_Within(last.arg[1], last.arg[2])
       /\ \A i \in DOMAIN last.ret :
            last.ret[i][2] = C10_MinHops(last.arg[1], last.ret[i][1])

\* bfs(1, 2) has returned on a graph in which 3 is reached over 1 -> 2 -> 3
\* and over 1 -> 3, and 3 leads back to 1: 3 has depth 1 and 1 keeps depth 0.
C10_Witness ==
  /\ last.op = "bfs"
  /\ last.arg = <<1, 2>>
  /\ db.edges = {TravEdge(1, 2), TravEdge(2, 3), TravEdge(1, 3), TravEdge(3, 1)}
  /\ last.ret = <<<<1, 0>>, <<2, 1>>, <<3, 1>>>>

----------------------------------------------------------------------------
(* GraphQuery.findRelated *)

\* A test that lets the start id through.
IsRelatedAlways(relatedId, nodeId) == TRUE

\* relatedId !== nodeId
IsRelated(relatedId, nodeId) == relatedId # nodeId

\* Set.add on a set kept in insertion order.
RelatedAdd(related, relatedId) ==
  IF relatedId \in Range(related) THEN related ELSE Append(related, relatedId)

\* The for loop of findRelated over the rest of the entries of visited.
RECURSIVE FindRelatedLoop(_, _, _)
FindRelatedLoop(rest, nodeId, related) ==
  IF rest = <<>> THEN related
  ELSE FindRelatedLoop(Tail(rest), nodeId,
                       IF IsRelated(Head(rest)[1], nodeId)
                       THEN RelatedAdd(related, Head(rest)[1])
                       ELSE related)

\* findRelated after its await of bfs: Array.from(related).
FindRelated(visited, nodeId) == FindRelatedLoop(visited, nodeId, <<>>)

----------------------------------------------------------------------------
(* SpecRelated: findRelated over a stored graph *)

FindRelatedCall == \E nodeId \in TravNodeIds : \E depth \in 0..MaxDepthArg :
  /\ trav.pc = "idle"
  /\ trav' = BfsTrav(nodeId, depth)
  /\ UNCHANGED <<db, history, nextId, pre, last, tasks>>

FindRelatedReturn ==
  /\ trav.pc = "bfs"
  /\ trav.queue = <<>>
  /\ trav' = [trav EXCEPT !.pc = "done"]
  /\ last' = [op |-> "findRelated", arg |-> <<trav.startNodeId, trav.maxDepth>>,
              ret |-> FindRelated(trav.visited, trav.startNodeId)]
  /\ UNCHANGED <<db, history, nextId, pre, tasks>>

NextRelated ==
  \/ FindRelatedCall
  \/ BfsLoop
  \/ FindRelatedReturn

SpecRelated == InitTraverse /\ [][NextRelated]_vars

\* C11: findRelated(start, depth) returns the keys of bfs(start, depth)
\* without start, each once: the ids other than start within depth outgoing
\* edges of start. It never holds start, also when a cycle leads back to
\* it, it is empty for depth 0, and on the graph whose one edge is 1 -> 2
\* findRelated(1, 1) is exactly <<2>>.
C11_FindRelated ==
  last.op = "findRelated" =>
    /\ Range(last.ret) = {trav.visited[i][1] : i \in DOMAIN trav.visited} \ {last.arg[1]}
    /\ Range(last.ret) = C10_Within(last.arg[1], last.arg[2]) \ {last.arg[1]}
    /\ \A i, j \in DOMAIN last.ret : last.ret[i] = last.ret[j] => i = j
    /\ last.arg[1] \notin Range(last.ret)
    /\ last.arg[2] = 0 => last.ret = <<>>
    /\ (db.edges = {TravEdge(1, 2)} /\ last.arg = <<1, 1>>) => last.ret = <<2>>

\* findRelated(1, 2) has returned on a graph with the cycle 1 -> 2 -> 1 and
\* a self-loop on 1: the result is 2 alone.
C11_Witness ==
  /\ last.op = "findRelated"
  /\ last.arg = <<1, 2>>
  /\ db.edges = {TravEdge(1, 1), TravEdge(1, 2), TravEdge(2, 1)}
  /\ last.ret = <<2>>

\* findRelated(1, 1) has returned on the graph whose one edge is 1 -> 2.
C11_WitnessScenario ==
  /\ last.op = "findRelated"
  /\ last.arg = <<1, 1>>
  /\ db.edges = {TravEdge(1, 2)}
  /\ last.ret = <<2>>

----------------------------------------------------------------------------
(* GraphQuery.findPath.  queue holds [nodeId, path] pairs, visited is the  *)
(* Set of ids.                                                              *)

\* const maxDepth = 5
FindPathMaxDepth == 5

\* A check that lets a path of maxDepth + 1 ids be extended.
PathTooLongByTwo(path, maxDepth) == Len(path) > maxDepth + 1

\* A check that stops a path of maxDepth ids from being extended.
PathTooLongAtMaxDepth(path, maxDepth) == Len(path) >= maxDepth

\* path.length > maxDepth
PathTooLong(path, maxDepth) == Len(path) > maxDepth

\* The for loop of findPath over the rest of the outgoing edges of the node
\* that path leads to; found is set where the loop returns.
RECURSIVE FindPathEdges(_, _, _, _, _)
FindPathEdges(rest, path, endId, visited, queue) ==
  IF rest = <<>>
  THEN [found |-> FALSE, ret |-> <<>>, visited |-> visited, queue |-> queue]
  ELSE LET target == Head(rest).target
       IN IF target = endId
          THEN [found |-> TRUE, ret |-> Append(path, endId),
                visited |-> visited, queue |-> queue]
          ELSE IF target \notin visited
          THEN FindPathEdges(Tail(rest), path, endId, visited \cup {target},
                             Append(queue, <<target, Append(path, target)>>))
          ELSE FindPathEdges(Tail(rest), path, endId, visited, queue)

\* findPath up to its while loop, for startId # endId.
FindPathTrav(startId, endId) ==
  [pc |-> "findPath", startId |-> startId, endId |-> endId,
   queue |-> <<<<startId, <<startId>>>>>>, visited |-> {startId}]

\* The body of one iteration of the while loop of findPath.
FindPathIterate(tr, d) ==
  LET nodeId == Head(tr.queue)[1]
      path == Head(tr.queue)[2]
  IN IF PathTooLong(path, FindPathMaxDepth)
     THEN [found |-> FALSE, ret |-> <<>>, visited |-> tr.visited,
           queue |-> Tail(tr.queue)]
     ELSE FindPathEdges(GetOutgoing(d, nodeId), path, tr.endId, tr.visited,
                        Tail(tr.queue))

----------------------------------------------------------------------------
(* SpecPath: findPath over a stored graph *)

MaxPathNodes == 7

PathNodeIds == 1..MaxPathNodes

\* The edges of the chain 1 -> 2 -> ... -> MaxPathNodes, two shortcuts and
\* two edges that close cycles.
PathEdges ==
  {TravEdge(a, a + 1) : a \in 1..(MaxPathNodes - 1)}
    \cup {TravEdge(1, 3), TravEdge(2, 5), TravEdge(3, 1), TravEdge(5, 4)}

PathGraphs == {AddEdges(EmptyDb, E) : E \in SUBSET PathEdges}

PathStartIds == {1, 2}

InitPath ==
  /\ db \in PathGraphs
  /\ history = <<>>
  /\ nextId = 0
  /\ pre = [db |-> db, history |-> <<>>]
  /\ last = NoCall
  /\ tasks = <<>>
  /\ trav = IdleTrav

FindPathCall == \E startId \in PathStartIds : \E endId \in PathNodeIds :
  /\ trav.pc = "idle"
  /\ IF startId = endId
     THEN /\ trav' = [pc |-> "done"]
          /\ last' = [op |-> "findPath", arg |-> <<startId, endId>>,
                      ret |-> <<startId>>]
     ELSE /\ trav' = FindPathTrav(startId, endId)
          /\ UNCHANGED last
  /\ UNCHANGED <<db, history, nextId, pre, tasks>>

FindPathLoop ==
  /\ trav.pc = "findPath"
  /\ trav.queue # <<>>
  /\ \E r \in {FindPathIterate(trav, db)} :
       IF r.found
       THEN /\ trav' = [pc |-> "done"]
            /\ last' = [op |-> "findPath", arg |-> <<trav.startId, trav.endId>>,
                        ret |-> r.ret]
       ELSE /\ trav' = [trav EXCEPT !.visited = r.visited, !.queue = r.queue]
            /\ UNCHANGED last
  /\ UNCHANGED <<db, history, nextId, pre, tasks>>

FindPathReturn ==
  /\ trav.pc = "findPath"
  /\ trav.queue = <<>>
  /\ trav' = [pc |-> "done"]
  /\ last' = [op |-> "findPath", arg |-> <<trav.startId, trav.endId>>,
              ret |-> <<>>]
  /\ UNCHANGED <<db, history, nextId, pre, tasks>>

NextPath ==
  \/ FindPathCall
  \/ FindPathLoop
  \/ FindPathReturn

SpecPath == InitPath /\ [][NextPath]_vars

----------------------------------------------------------------------------
(* Claims about findPath, checked under SpecPath *)

\* The stored graph has an edge with this source and this target.
C12_Joined(x, y) == \E e \in db.edges : e.source = x /\ e.target = y

\* C12: findPath(a, b) returns, for every graph and every pair (a, b), the
\* empty sequence or a sequence that starts with a, ends with b, has at most
\* 6 ids (5 hops) and joins every two consecutive ids by a stored edge from
\* the first to the second.
C12_ValidBoundedPath ==
  last.op = "findPath" =>
    \/ last.ret = <<>>
    \/ /\ Head(last.ret) = last.arg[1]
       /\ last.ret[Len(last.ret)] = last.arg[2]
       /\ Len(last.ret) <= 6
       /\ \A i \in 1..(Len(last.ret) - 1) : C12_Joined(last.ret[i], last.ret[i + 1])

\* findPath(1, 6) has returned the six ids of the chain, and findPath(1, 7)
\* would have needed seven.
C12_Witness ==
  /\ last.op = "findPath"
  /\ last.arg = <<1, 6>>
  /\ last.ret = <<1, 2, 3, 4, 5, 6>>
  /\ C12_Joined(6, 7)

\* The least number of outgoing edges that lead from a to b, for b within
\* FindPathMaxDepth edges of a.
C13_MinHops(a, b) ==
  CHOOSE k \in 0..FindPathMaxDepth :
    /\ b \in C10_Within(a, k)
    /\ k = 0 \/ b \notin C10_Within(a, k - 1)

\* C13: findPath(a, b) returns a path, and one with the least possible
\* number of hops, whenever b is reachable from a over at most 5 outgoing
\* edges; it returns the empty sequence only when b is not reachable within
\* 5 hops.
C13_ShortestWithinBound ==
  last.op = "findPath" =>
    IF last.arg[2] \in C10_Within(last.arg[1], 5)
    THEN /\ last.ret # <<>>
         /\ Len(last.ret) - 1 = C13_MinHops(last.arg[1], last.arg[2])
    ELSE last.ret = <<>>

\* findPath(1, 6) has returned the path over the shortcut 2 -> 5 in a graph
\* that also holds the whole chain and the cycle 1 -> 3 -> 1.
C13_Witness ==
  /\ last.op = "findPath"
  /\ last.arg = <<1, 6>>
  /\ last.ret = <<1, 2, 5, 6>>
  /\ \A a \in 1..5 : C12_Joined(a, a + 1)
  /\ C12_Joined(1, 3) /\ C12_Joined(3, 1)

\* findPath(1, 7) has returned the empty sequence on a graph in which 7 is
\* reached over six edges and no fewer.
C13_WitnessBeyond ==
  /\ last.op = "findPath"
  /\ last.arg = <<1, 7>>
  /\ last.ret = <<>>
  /\ 7 \in C10_Within(1, 6)

----------------------------------------------------------------------------
(* GraphQuery.search, _fuzzyMatch and _levenshteinDistance.  A score is a   *)
(* whole number of sixtieths: 60 is 1.0, 54 is 0.9, 36 is 0.6, 30 is 0.5.   *)

ScoreOne == 60

ScoreNineTenths == 54

\* matrix[i][j] for j = 0 .. a.length when row i - 1 of the matrix is prev:
\* row holds matrix[i][0 .. j - 1], ch is b.charAt(i - 1).
RECURSIVE LevenshteinRow(_, _, _, _, _)
LevenshteinRow(prev, row, a, ch, j) ==
  IF j > Len(a) THEN row
  ELSE LevenshteinRow(prev,
         Append(row, IF ch = a[j]
                     THEN prev[j]
                     ELSE Min(prev[j] + 1, Min(row[j] + 1, prev[j + 1] + 1))),
         a, ch, j + 1)

\* The rows matrix[i .. b.length] are filled in turn; the result is
\* matrix[b.length][a.length].
RECURSIVE LevenshteinRows(_, _, _, _)
LevenshteinRows(prev, a, b, i) ==
  IF i > Len(b) THEN prev[Len(a) + 1]
  ELSE LevenshteinRows(LevenshteinRow(prev, <<i>>, a, b[i], 1), a, b, i + 1)

\* _levenshteinDistance(a, b); row 0 of the matrix is 0 .. a.length.
LevenshteinDistance(a, b) ==
  LevenshteinRows([j \in 1..(Len(a) + 1) |-> j - 1], a, b, 1)

\* A _fuzzyMatch without the rule for a query that contains the target.
FuzzyMatchOneRule(query, target) ==
  IF Includes(target, query) THEN ScoreOne
  ELSE ScoreOne - (ScoreOne * LevenshteinDistance(query, target))
                    \div Max(Len(query), Len(target))

\* _fuzzyMatch(query, target)
FuzzyMatch(query, target) ==
  IF Includes(target, query) THEN ScoreOne
  ELSE IF Includes(query, target) THEN ScoreNineTenths
  ELSE ScoreOne - (ScoreOne * LevenshteinDistance(query, target))
                    \div Max(Len(query), Len(target))

\* A score taken against the label as stored.
SearchScoreRawLabel(query, label) == FuzzyMatch(ToLowerCase(query), label)

\* search: this._fuzzyMatch(query.toLowerCase(), node.label.toLowerCase())
SearchScore(query, label) == FuzzyMatch(ToLowerCase(query), ToLowerCase(label))

\* The for loop of search over the rest of the nodes.
RECURSIVE SearchLoop(_, _, _, _)
SearchLoop(rest, query, threshold, results) ==
  IF rest = <<>> THEN results
  ELSE LET score == SearchScore(query, Head(rest).label)
       IN SearchLoop(Tail(rest), query, threshold,
                     IF score >= threshold
                     THEN Append(results, [node |-> Head(rest), score |-> score])
                     ELSE results)

\* An insertion that puts r ahead of the entries of its own score.
SortInsertAheadOfTies(sorted, r) ==
  LET ahead == SelectSeq(sorted, LAMBDA x : x.score > r.score)
  IN ahead \o <<r>> \o SubSeq(sorted, Len(ahead) + 1, Len(sorted))

\* r put into a sequence sorted by (a, b) => b.score - a.score, behind the
\* entries that do not compare after it: the sort is stable.
SortInsert(sorted, r) ==
  LET ahead == SelectSeq(sorted, LAMBDA x : x.score >= r.score)
  IN ahead \o <<r>> \o SubSeq(sorted, Len(ahead) + 1, Len(sorted))

\* results.sort((a, b) => b.score - a.score), results[1..n] already sorted.
RECURSIVE SortByScore(_, _)
SortByScore(results, n) ==
  IF n = 0 THEN <<>>
  ELSE SortInsert(SortByScore(results, n - 1), results[n])

\* search after its await of getAllNodes, up to the sort.
SearchResults(d, query, threshold) ==
  LET results == SearchLoop(GetAllNodes(d), query, threshold, <<>>)
  IN SortByScore(results, Len(results))

\* .map(r => r.node)
ResultNodes(results) == [i \in DOMAIN results |-> results[i].node]

\* search(query, threshold)
Search(d, query, threshold) == ResultNodes(SearchResults(d, query, threshold))

----------------------------------------------------------------------------
(* SpecSearch: search over stored nodes *)

MaxLabelLen == 3

\* The strings of at most n characters of an alphabet.
Strings(alphabet, n) == UNION {[1..k -> alphabet] : k \in 0..n}

Labels == Strings({"R", "e"}, MaxLabelLen)

Queries == Strings({"R", "r", "e"}, MaxLabelLen)

\* 0.5, 0.6 (the default) and 1.0
Thresholds == {30, 36, 60}

SearchNode(id, label) ==
  [id |-> id, type |-> "skill", label |-> label, confidence |-> 95,
   frequency |-> 1, source |-> "resume"]

\* The store after addNode of each of the given nodes.
RECURSIVE AddNodes(_, _)
AddNodes(d, N) ==
  IF N = {} THEN d
  ELSE LET n == CHOOSE x \in N : TRUE IN AddNodes(AddNode(d, n), N \ {n})

\* Node 1 has any label, node 2 one of two, and node 3, when stored, has the
\* label React of the tests.
SearchGraphs ==
  {AddNodes(EmptyDb, {SearchNode(1, l1), SearchNode(2, l2)} \cup N3) :
     l1 \in Labels, l2 \in {Str_React, <<"e">>},
     N3 \in {{}, {SearchNode(3, Str_React)}}}

InitSearch ==
  /\ db \in SearchGraphs
  /\ history = <<>>
  /\ nextId = 0
  /\ pre = [db |-> db, history |-> <<>>]
  /\ last = NoCall
  /\ tasks = <<>>
  /\ trav = IdleTrav

\* trav keeps the local results of the call, scores included.
SearchCall ==
  /\ trav.pc = "idle"
  /\ \E query \in Queries : \E threshold \in Thresholds :
       \E results \in {SearchResults(db, query, threshold)} :
         /\ trav' = [pc |-> "done", results |-> results]
         /\ last' = [op |-> "search", arg |-> <<query, threshold>>,
                     ret |-> ResultNodes(results)]
  /\ UNCHANGED <<db, history, nextId, pre, tasks>>

NextSearch == SearchCall

SpecSearch == InitSearch /\ [][NextSearch]_vars

----------------------------------------------------------------------------
(* Claims about search, checked under SpecSearch *)

\* C14: for every stored node, search(label, 1.0) with the node's own label
\* as the query holds that node in its result.
C14_SearchReflexive ==
  last.op = "search" =>
    \A node \in db.nodes :
      (last.arg[1] = node.label /\ last.arg[2] = 60) =>
        \E i \in DOMAIN last.ret : last.ret[i] = node

\* search(<<"R", "e", "R">>, 1.0) has returned node 1, whose label is the
\* query, and not node 2.
C14_Witness ==
  /\ last.op = "search"
  /\ last.arg = <<<<"R", "e", "R">>, 60>>
  /\ GetNode(db, 1).label = <<"R", "e", "R">>
  /\ last.ret = <<GetNode(db, 1)>>

\* The edit distance of two strings by its defining recursion.
RECURSIVE C15_Levenshtein(_, _)
C15_Levenshtein(a, b) ==
  IF a = <<>> THEN Len(b)
  ELSE IF b = <<>> THEN Len(a)
  ELSE IF Head(a) = Head(b) THEN C15_Levenshtein(Tail(a), Tail(b))
  ELSE 1 + Min(C15_Levenshtein(Tail(a), Tail(b)),
               Min(C15_Levenshtein(Tail(a), b), C15_Levenshtein(a, Tail(b))))

\* q is a substring of str.
C15_Contains(str, q) ==
  \E i \in 1..(Len(str) + 1) : \E j \in (i - 1)..Len(str) : SubSeq(str, i, j) = q

\* A character in lower case.
C15_LowerChar(c) == CASE c = "R" -> "r" [] c = "V" -> "v" [] c = "G" -> "g" [] OTHER -> c

C15_Lower(str) == [i \in 1..Len(str) |-> C15_LowerChar(str[i])]

\* The score of the claim, in sixtieths, for a query and a label.
C15_Score(query, label) ==
  LET q == C15_Lower(query)
      l == C15_Lower(label)
  IN IF C15_Contains(l, q) THEN 60
     ELSE IF C15_Contains(q, l) THEN 54
     ELSE 60 - (60 * C15_Levenshtein(q, l)) \div Max(Len(q), Len(l))

\* C15: the score search gives a node is taken on the lower-cased query and
\* label and is 1.0 if the label contains the query, else 0.9 if the query
\* contains the label, else 1 - levenshtein / max(len(query), len(label));
\* it lies in [0, 1], and a query that is the label in lower case is found
\* at threshold 0.6.
C15_ScoreRule ==
  last.op = "search" =>
    /\ \A node \in db.nodes :
         /\ SearchScore(last.arg[1], node.label) = C15_Score(last.arg[1], node.label)
         /\ SearchScore(last.arg[1], node.label) \in 0..60
         /\ (last.arg[1] = C15_Lower(node.label) /\ last.arg[2] = 36) =>
              \E i \in DOMAIN last.ret : last.ret[i] = node
    /\ \A i \in DOMAIN trav.results :
         trav.results[i].score = C15_Score(last.arg[1], trav.results[i].node.label)

\* search(<<"r", "e">>, 0.5) has scored React 1.0 (it contains the query),
\* the label e 0.9 (the query contains it) and the label ee 0.5 (one edit
\* of two characters).
C15_Witness ==
  /\ last.op = "search"
  /\ last.arg = <<<<"r", "e">>, 30>>
  /\ Len(trav.results) = 3
  /\ trav.results[1] = [node |-> SearchNode(3, Str_React), score |-> 60]
  /\ trav.results[2] = [node |-> SearchNode(2, <<"e">>), score |-> 54]
  /\ trav.results[3] = [node |-> SearchNode(1, <<"e", "e">>), score |-> 30]

\* C16: search(query, threshold) returns exactly the stored nodes whose
\* score is at least threshold, each once, in order of non-increasing score,
\* and nodes of equal score in the order in which the store lists them (the
\* order of their ids).
C16_FilteredStableOrder ==
  last.op = "search" =>
    /\ Range(last.ret) =
         {node \in db.nodes : C15_Score(last.arg[1], node.label) >= last.arg[2]}
    /\ \A i, j \in DOMAIN last.ret : last.ret[i] = last.ret[j] => i = j
    /\ \A i, j \in DOMAIN last.ret :
         i < j =>
           LET si == C15_Score(last.arg[1], last.ret[i].label)
               sj == C15_Score(last.arg[1], last.ret[j].label)
           IN /\ si >= sj
              /\ si = sj => last.ret[i].id < last.ret[j].id

\* search(<<"R", "e">>, 0.5) has returned nodes 2 and 3, both with score
\* 1.0, in the order of the store and ahead of node 1, which the store
\* lists first and which has the lower score 0.9.
C16_Witness ==
  /\ last.op = "search"
  /\ last.arg = <<Str_React, 30>>
  /\ GetNode(db, 1).label = <<"e">>
  /\ last.ret = <<SearchNode(2, Str_React), SearchNode(3, Str_React),
                  SearchNode(1, <<"e">>)>>

----------------------------------------------------------------------------
(* SemanticMatcher.findMatches.  A confidence is a whole number of          *)
(* thousandths and a context strength a whole number of hundredths, so      *)
(* 0.7 * contextWeight is 7 * contextWeight.                                *)

\* The keywords of intentKeywordMap, character by character.
Keyword ==
  [project |-> <<"p", "r", "o", "j", "e", "c", "t">>,
   leadership |-> <<"l", "e", "a", "d", "e", "r", "s", "h", "i", "p">>,
   achievement |-> <<"a", "c", "h", "i", "e", "v", "e", "m", "e", "n", "t">>,
   challenge |-> <<"c", "h", "a", "l", "l", "e", "n", "g", "e">>,
   solution |-> <<"s", "o", "l", "u", "t", "i", "o", "n">>,
   role |-> <<"r", "o", "l", "e">>,
   company |-> <<"c", "o", "m", "p", "a", "n", "y">>,
   skill |-> <<"s", "k", "i", "l", "l">>,
   expert |-> <<"e", "x", "p", "e", "r", "t">>,
   degree |-> <<"d", "e", "g", "r", "e", "e">>,
   university |-> <<"u", "n", "i", "v", "e", "r", "s", "i", "t", "y">>,
   institution |-> <<"i", "n", "s", "t", "i", "t", "u", "t", "i", "o", "n">>,
   major |-> <<"m", "a", "j", "o", "r">>,
   technology |-> <<"t", "e", "c", "h", "n", "o", "l", "o", "g", "y">>,
   expertise |-> <<"e", "x", "p", "e", "r", "t", "i", "s", "e">>,
   title |-> <<"t", "i", "t", "l", "e">>,
   position |-> <<"p", "o", "s", "i", "t", "i", "o", "n">>]

\* _extractIntentKeywords(intent): intentKeywordMap[intent] || []
ExtractIntentKeywords(intent) ==
  CASE intent = "professional_narrative" -> <<Keyword.project, Keyword.leadership, Keyword.achievement, Keyword.challenge, Keyword.solution>>
    [] intent = "professional_experience" -> <<Keyword.role, Keyword.company, Keyword.skill, Keyword.achievement>>
    [] intent = "professional_summary" -> <<Keyword.role, Keyword.expert, Keyword.skill, Keyword.achievement>>
    [] intent = "education" -> <<Keyword.degree, Keyword.university, Keyword.institution, Keyword.major>>
    [] intent = "skills" -> <<Keyword.skill, Keyword.technology, Keyword.expertise>>
    [] intent = "professional_title" -> <<Keyword.role, Keyword.title, Keyword.position>>
    [] OTHER -> <<>>

\* || 0.7
DefaultContextWeight == 70

\* 0.7 * contextWeight
TypeMatchFactor == 7

\* 0.8 * contextWeight
IntentFactor == 8

\* confidence: 0.6
SiblingConfidence == 600

\* search(keyword, 0.5)
KeywordThreshold == 30

\* Array.from(siblingFields).slice(0, 3)
MaxSiblings == 3

\* fullContext?.semanticSignals?.contextStrength || 0.7
ContextWeight(fullContext) ==
  IF fullContext.present /\ fullContext.contextStrength # 0
  THEN fullContext.contextStrength
  ELSE DefaultContextWeight

\* Matches whose confidence is weighted by the stored confidence of the node.
AsMatchesWeighted(nodes, strategy, confidence) ==
  [i \in DOMAIN nodes |->
     [node |-> nodes[i], strategy |-> strategy,
      confidence |-> (confidence * nodes[i].confidence) \div 100]]

\* nodes.map(node => ({node, strategy, confidence}))
AsMatches(nodes, strategy, confidence) ==
  [i \in DOMAIN nodes |->
     [node |-> nodes[i], strategy |-> strategy, confidence |-> confidence]]

\* Strategy 1: the for loop over the rest of entityTypes.
RECURSIVE TypeMatches(_, _, _)
TypeMatches(d, entityTypes, contextWeight) ==
  IF entityTypes = <<>> THEN <<>>
  ELSE AsMatches(GetNodesByType(d, Head(entityTypes)), "type_match",
                 TypeMatchFactor * contextWeight)
         \o TypeMatches(d, Tail(entityTypes), contextWeight)

\* The for loop over the rest of the keywords of an intent, in strategy 2
\* and in _findSiblingContextMatches.
RECURSIVE KeywordMatches(_, _, _, _)
KeywordMatches(d, keywords, strategy, confidence) ==
  IF keywords = <<>> THEN <<>>
  ELSE AsMatches(Search(d, Head(keywords), KeywordThreshold), strategy, confidence)
         \o KeywordMatches(d, Tail(keywords), strategy, confidence)

\* array.slice(0, end) for end >= 0
Slice(array, end) == SubSeq(array, 1, Min(end, Len(array)))

\* The for loop of _findSiblingContextMatches over the rest of the sibling
\* fields; a sibling is given by the intent the analyzer finds for it.
RECURSIVE SiblingLoop(_, _)
SiblingLoop(d, siblings) ==
  IF siblings = <<>> THEN <<>>
  ELSE (IF Head(siblings) # "other"
        THEN KeywordMatches(d, ExtractIntentKeywords(Head(siblings)),
                            "sibling_context", SiblingConfidence)
        ELSE <<>>)
         \o SiblingLoop(d, Tail(siblings))

\* _findSiblingContextMatches(fieldElement)
FindSiblingContextMatches(d, fieldElement) ==
  IF ~fieldElement.hasForm THEN <<>>
  ELSE SiblingLoop(d, Slice(fieldElement.siblings, MaxSiblings))

\* matches before the deduplication.
AllMatches(d, fieldAnalysis) ==
  LET fullContext == fieldAnalysis.fullContext
      contextWeight == ContextWeight(fullContext)
  IN TypeMatches(d, fieldAnalysis.entityTypes, contextWeight)
       \o (IF fullContext.present
           THEN KeywordMatches(d, ExtractIntentKeywords(fullContext.intent),
                               "intent_semantic", IntentFactor * contextWeight)
           ELSE <<>>)
       \o (IF fieldAnalysis.fieldElement.present
           THEN FindSiblingContextMatches(d, fieldAnalysis.fieldElement)
           ELSE <<>>)

\* deduped is the Map in insertion order, a sequence of matches with
\* distinct node ids.
DedupedHas(deduped, id) == \E i \in DOMAIN deduped : deduped[i].node.id = id

DedupedGet(deduped, id) ==
  deduped[CHOOSE i \in DOMAIN deduped : deduped[i].node.id = id]

\* A set that moves a key it replaces to the end of the Map.
DedupedSetMovesKey(deduped, id, match) ==
  Append(SelectSeq(deduped, LAMBDA m : m.node.id # id), match)

\* Map.set: a new key is appended, the value of an old key is replaced in
\* place.
DedupedSet(deduped, id, match) ==
  IF DedupedHas(deduped, id)
  THEN [i \in DOMAIN deduped |->
          IF deduped[i].node.id = id THEN match ELSE deduped[i]]
  ELSE Append(deduped, match)

\* A test that never replaces the match kept for an id.
ReplacesNever(match, kept) == FALSE

\* match.confidence > deduped.get(id).confidence
Replaces(match, kept) == match.confidence > kept.confidence

\* The for loop of the deduplication over the rest of matches.
RECURSIVE Dedup(_, _)
Dedup(rest, deduped) ==
  IF rest = <<>> THEN deduped
  ELSE LET match == Head(rest)
           id == match.node.id
       IN Dedup(Tail(rest),
                IF ~DedupedHas(deduped, id) THEN DedupedSet(deduped, id, match)
                ELSE IF Replaces(match, DedupedGet(deduped, id))
                THEN DedupedSet(deduped, id, match)
                ELSE deduped)

\* m put into a sequence sorted by (a, b) => b.confidence - a.confidence,
\* behind the entries that do not compare after it.
SortInsertByConfidence(sorted, m) ==
  LET ahead == SelectSeq(sorted, LAMBDA x : x.confidence >= m.confidence)
  IN ahead \o <<m>> \o SubSeq(sorted, Len(ahead) + 1, Len(sorted))

\* .sort((a, b) => b.confidence - a.confidence), matches[1..n] already
\* sorted.
RECURSIVE SortByConfidence(_, _)
SortByConfidence(matches, n) ==
  IF n = 0 THEN <<>>
  ELSE SortInsertByConfidence(SortByConfidence(matches, n - 1), matches[n])

\* findMatches(fieldAnalysis, maxSuggestions), given matches
FindMatchesFrom(matches, maxSuggestions) ==
  LET deduped == Dedup(matches, <<>>)
      ranked == Slice(SortByConfidence(deduped, Len(deduped)), maxSuggestions)
  IN [i \in DOMAIN ranked |-> ranked[i].node]

\* findMatches(fieldAnalysis, maxSuggestions)
FindMatches(d, fieldAnalysis, maxSuggestions) ==
  FindMatchesFrom(AllMatches(d, fieldAnalysis), maxSuggestions)

----------------------------------------------------------------------------
(* SpecMatch: findMatches over stored nodes *)

Str_Role == <<"R", "o", "l", "e">>

Str_tile == <<"t", "i", "l", "e">>

Str_skills == <<"s", "k", "i", "l", "l", "s">>

MatchNode(id, type, label) ==
  [id |-> id, type |-> type, label |-> label, confidence |-> 95,
   frequency |-> 1, source |-> "resume"]

\* Node 1 is labelled skill or Role, node 2 Role or tile (one edit from
\* title, two from role); node 3, when stored, is an org labelled skills.
MatchGraphs ==
  {AddNodes(EmptyDb, {MatchNode(1, t1, l1), MatchNode(2, t2, l2)} \cup N3) :
     t1 \in NodeTypes, l1 \in {Keyword.skill, Str_Role},
     t2 \in NodeTypes, l2 \in {Str_Role, Str_tile},
     N3 \in {{}, {MatchNode(3, "org", Str_skills)}}}

NoFullContext == [present |-> FALSE]

\* fullContext: semanticSignals.contextStrength in hundredths and intent.
FullContexts ==
  {NoFullContext}
    \cup [present : {TRUE}, contextStrength : {0, 50, 100},
          intent : {"skills", "professional_title", "other"}]

NoFieldElement == [present |-> FALSE]

\* fieldElement: whether closest('form') finds a form, and the intents of
\* the fields of that form.
FieldElements ==
  {NoFieldElement}
    \cup [present : {TRUE}, hasForm : {FALSE}, siblings : {<<>>}]
    \cup [present : {TRUE}, hasForm : {TRUE},
          siblings : {<<"skills">>, <<"other", "professional_title">>,
                      <<"other", "other", "other", "skills">>}]

FieldAnalyses ==
  [entityTypes : {<<"skill", "tech_skill">>, <<"skill", "role">>,
                  <<"role", "role", "skill">>},
   fullContext : FullContexts, fieldElement : FieldElements]

\* maxSuggestions = 3 by default
MaxSuggestionsInputs == 0..3

InitMatch ==
  /\ db \in MatchGraphs
  /\ history = <<>>
  /\ nextId = 0
  /\ pre = [db |-> db, history |-> <<>>]
  /\ last = NoCall
  /\ tasks = <<>>
  /\ trav = IdleTrav

\* trav keeps the locals matches and deduped of the call.
FindMatchesCall ==
  /\ trav.pc = "idle"
  /\ \E fieldAnalysis \in FieldAnalyses : \E maxSuggestions \in MaxSuggestionsInputs :
       \E matches \in {AllMatches(db, fieldAnalysis)} :
         /\ trav' = [pc |-> "done", matches |-> matches,
                     deduped |-> Dedup(matches, <<>>)]
         /\ last' = [op |-> "findMatches", arg |-> <<fieldAnalysis, maxSuggestions>>,
                     ret |-> FindMatchesFrom(matches, maxSuggestions)]
  /\ UNCHANGED <<db, history, nextId, pre, tasks>>

NextMatch == FindMatchesCall

SpecMatch == InitMatch /\ [][NextMatch]_vars

----------------------------------------------------------------------------
(* Claims about findMatches, checked under SpecMatch *)

\* The ids of the nodes that the strategies found.
C17_CandidateIds == {trav.matches[i].node.id : i \in DOMAIN trav.matches}

\* The greatest score that a strategy gave the node of an id.
C17_MaxScore(id) ==
  CHOOSE c \in {trav.matches[i].confidence : i \in DOMAIN trav.matches} :
    /\ \E i \in DOMAIN trav.matches :
         trav.matches[i].node.id = id /\ trav.matches[i].confidence = c
    /\ \A i \in DOMAIN trav.matches :
         trav.matches[i].node.id = id => trav.matches[i].confidence <= c

\* The strategies that found the node of an id.
C17_Strategies(id) ==
  {trav.matches[i].strategy :
     i \in {j \in DOMAIN trav.matches : trav.matches[j].node.id = id}}

\* C17: findMatches never returns the same node id twice, and a node that
\* several strategies found is kept, and ranked, with the greatest of the
\* scores they gave it, never their sum or their average.
C17_DedupKeepsMax ==
  last.op = "findMatches" =>
    /\ \A i, j \in DOMAIN last.ret : last.ret[i].id = last.ret[j].id => i = j
    /\ {trav.deduped[i].node.id : i \in DOMAIN trav.deduped} = C17_CandidateIds
    /\ \A i \in DOMAIN trav.deduped :
         trav.deduped[i].confidence = C17_MaxScore(trav.deduped[i].node.id)
    /\ \A i, j \in DOMAIN last.ret :
         i < j => C17_MaxScore(last.ret[i].id) >= C17_MaxScore(last.ret[j].id)

\* A node that the type match scored 0.7, the intent search 0.8 and the
\* sibling search 0.6 is returned once and first, ahead of a node scored 0.7.
C17_Witness ==
  /\ last.op = "findMatches"
  /\ Len(last.ret) >= 2
  /\ C17_Strategies(last.ret[1].id) = {"type_match", "intent_semantic", "sibling_context"}
  /\ C17_MaxScore(last.ret[1].id) = 800
  /\ C17_MaxScore(last.ret[2].id) = 700

\* The place in matches at which the node of an id was first seen.
C18_FirstSeen(id) ==
  CHOOSE i \in DOMAIN trav.matches :
    /\ trav.matches[i].node.id = id
    /\ \A j \in 1..(i - 1) : trav.matches[j].node.id # id

\* The candidate a ranks ahead of the candidate b.
C18_Ahead(a, b) ==
  \/ C17_MaxScore(a) > C17_MaxScore(b)
  \/ C17_MaxScore(a) = C17_MaxScore(b) /\ C18_FirstSeen(a) < C18_FirstSeen(b)

\* C18: findMatches(analysis, k) returns the deduplicated candidates in
\* order of non-increasing score, candidates of equal score in the order in
\* which their ids were first seen across the strategies, cut to the first
\* k: min(k, number of distinct candidate ids) nodes.
C18_RankedTruncated ==
  last.op = "findMatches" =>
    /\ Len(last.ret) = Min(last.arg[2], Cardinality(C17_CandidateIds))
    /\ \A i \in DOMAIN last.ret :
         /\ last.ret[i].id \in C17_CandidateIds
         /\ last.ret[i] = GetNode(db, last.ret[i].id)
    /\ \A i, j \in DOMAIN last.ret :
         i < j => C18_Ahead(last.ret[i].id, last.ret[j].id)
    /\ \A i \in DOMAIN last.ret :
         \A id \in C17_CandidateIds \ {last.ret[j].id : j \in DOMAIN last.ret} :
           C18_Ahead(last.ret[i].id, id)

\* findMatches(analysis, 2) has returned two of three candidates; the two
\* have the same score, and the first of them was first seen with a lower
\* score, after which the other was seen, after which the first was seen
\* again with the score they share.
C18_Witness ==
  /\ last.op = "findMatches"
  /\ last.arg[2] = 2
  /\ Cardinality(C17_CandidateIds) = 3
  /\ Len(last.ret) = 2
  /\ C17_MaxScore(last.ret[1].id) = C17_MaxScore(last.ret[2].id)
  /\ trav.matches[C18_FirstSeen(last.ret[1].id)].confidence < C17_MaxScore(last.ret[1].id)
  /\ \E i \in DOMAIN trav.matches :
       /\ i > C18_FirstSeen(last.ret[2].id)
       /\ trav.matches[i].node.id = last.ret[1].id
       /\ trav.matches[i].confidence = C17_MaxScore(last.ret[1].id)

\* The score of the claim for a strategy, in thousandths, with the context
\* strength in hundredths.
C19_Score(strategy, contextStrength) ==
  CASE strategy = "type_match" -> 7 * contextStrength
    [] strategy = "intent_semantic" -> 8 * contextStrength
    [] strategy = "sibling_context" -> 600

\* C19: for every contextWeight in [0, 1] that the context analyzer
\* supplies, 0 included, findMatches scores a type match 0.7 x
\* contextWeight, an intent search match 0.8 x contextWeight and a sibling
\* search match 0.6 whatever contextWeight is.
C19_StrategyScores ==
  (last.op = "findMatches" /\ last.arg[1].fullContext.present) =>
    \A i \in DOMAIN trav.matches :
      trav.matches[i].confidence =
        C19_Score(trav.matches[i].strategy, last.arg[1].fullContext.contextStrength)

\* The same for every contextWeight other than 0.
C19_StrategyScoresNonZero ==
  (/\ last.op = "findMatches"
   /\ last.arg[1].fullContext.present
   /\ last.arg[1].fullContext.contextStrength # 0) =>
    \A i \in DOMAIN trav.matches :
      trav.matches[i].confidence =
        C19_Score(trav.matches[i].strategy, last.arg[1].fullContext.contextStrength)

----------------------------------------------------------------------------
(* SpecCorrection: feedback with corrections, recorded and processed *)

MaxCorrections == 2

Str_SpaceGo == <<" ", "G", "o">>

Str_v == <<"v">>

Str_Space == <<" ">>

\* Feedback with and without a source node (3 is the id of no stored node),
\* with an edit that is new, padded, blank, empty or the label of node 2 in
\* lower case.
CorrectionInputs ==
  {[fieldId |-> "skills", sourceNodeId |-> 1, feedback |-> "incorrect",
    userEdit |-> Str_Go, affectedNodeIds |-> {}],
   [fieldId |-> "skills", sourceNodeId |-> 0, feedback |-> "incorrect",
    userEdit |-> Str_SpaceGo, affectedNodeIds |-> {}],
   [fieldId |-> "skills", sourceNodeId |-> 3, feedback |-> "incorrect",
    userEdit |-> Str_Go, affectedNodeIds |-> {}],
   [fieldId |-> "skills", sourceNodeId |-> 1, feedback |-> "incorrect",
    userEdit |-> Str_v, affectedNodeIds |-> {}],
   [fieldId |-> "skills", sourceNodeId |-> 1, feedback |-> "incorrect",
    userEdit |-> <<>>, affectedNodeIds |-> {}],
   [fieldId |-> "skills", sourceNodeId |-> 1, feedback |-> "correct",
    userEdit |-> Str_Go, affectedNodeIds |-> {}],
   [fieldId |-> "skills", sourceNodeId |-> 0, feedback |-> "",
    userEdit |-> Str_Go, affectedNodeIds |-> {}],
   [fieldId |-> "skills", sourceNodeId |-> 1, feedback |-> "incorrect",
    userEdit |-> Str_Space, affectedNodeIds |-> {}]}

InitCorrection ==
  /\ db = InitialGraph(80, 90)
  /\ history = <<>>
  /\ nextId = 0
  /\ pre = [db |-> db, history |-> <<>>]
  /\ last = NoCall
  /\ tasks = <<>>
  /\ trav = IdleTrav

RecordCorrectionCall ==
  /\ Len(history) < MaxCorrections
  /\ \E feedback \in CorrectionInputs :
       \E r \in {RecordFeedback(Shared, feedback, Len(history) + 1)} :
         LearnCall("recordFeedback", feedback, r.t.record, r.s)

ProcessCorrectionCall == \E feedbackId \in 1..(Len(history) + 1) :
  \E r \in {ProcessFeedback(Shared, feedbackId)} :
     LearnCall("processFeedback", feedbackId,
               [error |-> r.t.pc = "failed", updates |-> r.t.updates], r.s)

NextCorrection ==
  \/ RecordCorrectionCall
  \/ ProcessCorrectionCall

SpecCorrection == InitCorrection /\ [][NextCorrection]_vars

----------------------------------------------------------------------------
(* Claims about the correction branch, checked under SpecCorrection *)

\* The nodes and the edges that the last call added to the store.
C20_NewNodes == {n \in db.nodes : \A m \in pre.db.nodes : m.id # n.id}

C20_NewEdges == {e \in db.edges : \A f \in pre.db.edges : f.id # e.id}

\* processFeedback has processed a record of the ledger.
C20_Applies == last.op = "processFeedback" /\ C2_Feedback # Undefined

\* The label search finds a stored node for the text.
C20_LabelMatches(text) ==
  \E n \in pre.db.nodes : C15_Contains(C15_Lower(n.label), C15_Lower(text))

\* The verdict is Incorrect, the edit is not empty and no label matches it.
C20_Creates ==
  /\ C2_Feedback.feedback = "incorrect"
  /\ C2_Feedback.userEdit # <<>>
  /\ ~C20_LabelMatches(C2_Feedback.userEdit)

\* The text without the spaces at its ends.
C20_Trimmed(text) ==
  CHOOSE t \in {SubSeq(text, i, j) : i \in 1..(Len(text) + 1), j \in 0..Len(text)} :
    \E i \in 1..(Len(text) + 1) : \E j \in (i - 1)..Len(text) :
      /\ t = SubSeq(text, i, j)
      /\ \A k \in (1..(i - 1)) \cup ((j + 1)..Len(text)) : text[k] = " "
      /\ t = <<>> \/ (t[1] # " " /\ t[Len(t)] # " ")

\* The new node is a skill from user feedback with confidence 0.8 and the
\* given label.
C20_NodeCreated(label) ==
  \E n \in C20_NewNodes :
    /\ C20_NewNodes = {n}
    /\ n.type = "skill"
    /\ n.source = "user_feedback"
    /\ n.confidence = 80
    /\ n.label = label

\* One new edge leads from the source node of the record to the new node,
\* an inferred hasSkill edge of confidence 0.7.
C20_EdgeCreated ==
  \E e \in C20_NewEdges : \E n \in C20_NewNodes :
    /\ C20_NewEdges = {e}
    /\ e.source = C2_Feedback.sourceNodeId
    /\ e.target = n.id
    /\ e.type = "hasSkill"
    /\ e.inferred = TRUE
    /\ e.confidence = 70

\* C20: processFeedback creates a node if and only if the verdict is
\* Incorrect, userEdit is not empty and no stored label matches userEdit
\* under the label search; the node is a skill with source user_feedback,
\* confidence 0.8 and the corrected text as its label, linked from
\* sourceNodeId by exactly one new hasSkill edge with inferred = true and
\* confidence 0.7; every other verdict creates no node and no edge.
C20_CreatesLinkedNode ==
  C20_Applies =>
    IF C20_Creates
    THEN C20_NodeCreated(C2_Feedback.userEdit) /\ C20_EdgeCreated
    ELSE C20_NewNodes = {} /\ C20_NewEdges = {}

\* C20 as amended: the label of the node is the corrected text without the
\* white space at its ends, and the edge is created when the record has a
\* sourceNodeId; a record without one gets the node and no edge.
C20_CreatesNodeAndEdgeIfSource ==
  C20_Applies =>
    IF C20_Creates
    THEN /\ C20_NodeCreated(C20_Trimmed(C2_Feedback.userEdit))
         /\ IF C2_Feedback.sourceNodeId # 0
            THEN C20_EdgeCreated
            ELSE C20_NewEdges = {}
         /\ last.ret.updates.newNodesCreated = 1
    ELSE /\ C20_NewNodes = {}
         /\ C20_NewEdges = {}
         /\ last.ret.updates.newNodesCreated = 0

\* processFeedback has created the node Go for a record without a source
\* node and with the edit " Go", and no edge.
C20_Witness ==
  /\ C20_Applies
  /\ C2_Feedback.sourceNodeId = 0
  /\ C2_Feedback.userEdit = Str_SpaceGo
  /\ C20_NodeCreated(Str_Go)
  /\ C20_NewEdges = {}

\* processFeedback has created the node Go and the edge to it from node 3,
\* which is not stored.
C20_WitnessLinked ==
  /\ C20_Applies
  /\ C2_Feedback.sourceNodeId = 3
  /\ C20_NodeCreated(Str_Go)
  /\ C20_EdgeCreated

----------------------------------------------------------------------------
(* Claims about reprocessing, checked under SpecLearn *)

C21_Clamp(c) == Min(100, Max(30, c))

\* The confidence a node ends with when the deltas of the records of hist
\* that name it as source are applied one after the other, each clamped.
RECURSIVE C21_Reapplied(_, _, _)
C21_Reapplied(hist, nodeId, c) ==
  IF hist = <<>> THEN c
  ELSE C21_Reapplied(
         Tail(hist), nodeId,
         IF Head(hist).sourceNodeId = nodeId
         THEN C21_Clamp(c + C2_Delta(Head(hist).feedback))
         ELSE c)

C21_Uses(hist, nodeId) ==
  Len(SelectSeq(hist, LAMBDA f : f.sourceNodeId = nodeId))

\* processFeedback(id) has succeeded and the next call is processFeedback(id)
\* again: the delta is applied to the first result, the frequency is two
\* above what it was before the first call.
C21_Twice ==
  (/\ last.op = "processFeedback"
   /\ ~last.ret.error
   /\ last'.op = "processFeedback"
   /\ last'.arg = last.arg)
  => LET f == GetFeedbackById(history, last.arg)
         before == GetNode(pre.db, f.sourceNodeId)
         first == GetNode(db, f.sourceNodeId)
         second == GetNode(db', f.sourceNodeId)
     IN /\ ~last'.ret.error
        /\ second.confidence = C21_Clamp(first.confidence + C2_Delta(f.feedback))
        /\ second.frequency = before.frequency + 2

\* processFeedback(id) has succeeded and the next call is processAllFeedback:
\* the delta of every ledger record, the one just processed included, is
\* applied to its source node, and each record counts one more use.
C21_Batch ==
  (/\ last.op = "processFeedback"
   /\ ~last.ret.error
   /\ last'.op = "processAllFeedback")
  => \A node \in db.nodes :
       LET after == GetNode(db', node.id)
       IN /\ after.confidence = C21_Reapplied(history, node.id, node.confidence)
          /\ after.frequency = node.frequency + C21_Uses(history, node.id)

C23_UnknownIdFails ==
  (/\ last.op = "processFeedback"
   /\ \A i \in DOMAIN pre.history : pre.history[i].id # last.arg)
  => /\ last.ret.error
     /\ last.ret.updates = NoUpdates
     /\ db = pre.db
     /\ history = pre.history

\* processFeedback has been called with an id that a ledger of two records
\* does not hold, after the records had changed the store.
C23_Witness ==
  /\ last.op = "processFeedback"
  /\ last.arg = 3
  /\ Len(pre.history) = 2
  /\ last.ret.error
  /\ GetNode(db, 1).frequency > 1
  /\ db.edges # {}

\* The ledger records that are feedback on the edge's source node with the
\* verdict Correct and the edge's target among affectedNodeIds.
C24_CorrectUses(edge) ==
  Cardinality({i \in DOMAIN pre.history :
                 /\ pre.history[i].sourceNodeId = edge.source
                 /\ pre.history[i].feedback = "correct"
                 /\ edge.target \in pre.history[i].affectedNodeIds})

C24_Raised == {edge \in pre.db.edges : C24_CorrectUses(edge) > 2}

C24_RefinesFrom(confidences) ==
  last.op = "refineRelationshipWeights" =>
    /\ db.nodes = pre.db.nodes
    /\ {edge.id : edge \in db.edges} = {edge.id : edge \in pre.db.edges}
    /\ \A edge \in pre.db.edges :
          edge.confidence \in confidences =>
            GetEdge(db, edge.id) =
              IF edge \in C24_Raised
              THEN [edge EXCEPT !.confidence = Min(@ + 5, 100)]
              ELSE edge
    /\ last.ret.edgesRefined = Cardinality(C24_Raised)

\* C24: refineRelationshipWeights raises an edge's confidence c, for any c
\* in [0, 1] with 0 included, to min(c + 0.05, 1.0) exactly when more than 2
\* ledger records are Correct feedback on the edge's source node with the
\* edge's target in affectedNodeIds; every other edge is left as it was and
\* edgesRefined is the number of edges raised.
C24_RefinesEveryConfidence == C24_RefinesFrom(0..100)

\* C24 for the stored confidences other than 0.
C24_RefinesNonZero == C24_RefinesFrom(1..100)

\* refineRelationshipWeights has raised an edge stored with confidence 0.
C24_ZeroRaised ==
  /\ last.op = "refineRelationshipWeights"
  /\ \E edge \in C24_Raised : edge.confidence = 0

----------------------------------------------------------------------------
(* SpecBatch: processAllFeedback over a store whose requests may fail.  A   *)
(* GraphStorage request that fires onerror rejects its promise, the await   *)
(* throws, and processFeedback ends there with what it had written so far.  *)

\* The requests of processFeedback that are made to fail: the first read of
\* the source node, the write of the new edge, the write of the frequency.
RejectPoints == {"pf_getNode", "pf_createEdge", "pf_addNode2"}

\* One step of a task whose request at rejectAt rejects.
TaskStepRejecting(t, s, rejectAt) ==
  IF t.pc = rejectAt
  THEN [t |-> [t EXCEPT !.pc = "failed"], s |-> s]
  ELSE TaskStep(t, s)

RECURSIVE RunToEndRejecting(_, _, _)
RunToEndRejecting(t, s, rejectAt) ==
  IF Ended(t) THEN [t |-> t, s |-> s]
  ELSE LET r == TaskStepRejecting(t, s, rejectAt)
       IN RunToEndRejecting(r.t, r.s, rejectAt)

\* processFeedback(feedbackId) with the request at rejectAt rejecting.
ProcessFeedbackRejecting(s, feedbackId, rejectAt) ==
  RunToEndRejecting(ProcessFeedbackTask(feedbackId), s, rejectAt)

\* A loop that gives up at the first record that fails.
StopAfterCatch(rest) == <<>>

\* catch (error) { ...; summary.errors++ }: the loop goes on with the rest.
AfterCatch(rest) == Tail(rest)

\* The loop of processAllFeedback over the rest of the ledger it read; the
\* records at the positions of rejecting meet a request that rejects at
\* rejectAt.  calls lists the calls of processFeedback the loop has made.
RECURSIVE ProcessAllRejectingLoop(_, _, _, _, _, _)
ProcessAllRejectingLoop(rest, summary, s, rejecting, rejectAt, calls) ==
  IF rest = <<>> THEN [summary |-> summary, s |-> s, calls |-> calls]
  ELSE LET position == Len(calls) + 1
           r == ProcessFeedbackRejecting(
                  s, Head(rest).id,
                  IF position \in rejecting THEN rejectAt ELSE "none")
           u == r.t.updates
           call == [id |-> Head(rest).id, failed |-> r.t.pc = "failed", updates |-> u]
       IN IF r.t.pc = "failed"
          THEN ProcessAllRejectingLoop(
                 AfterCatch(rest), [summary EXCEPT !.errors = @ + 1], r.s,
                 rejecting, rejectAt, Append(calls, call))
          ELSE ProcessAllRejectingLoop(
                 Tail(rest),
                 [summary EXCEPT
                    !.processed = @ + 1,
                    !.totalUpdates.nodesUpdated = @ + u.nodesUpdated,
                    !.totalUpdates.edgesUpdated = @ + u.edgesUpdated,
                    !.totalUpdates.newNodesCreated = @ + u.newNodesCreated],
                 r.s, rejecting, rejectAt, Append(calls, call))

ProcessAllFeedbackRejecting(s, rejecting, rejectAt) ==
  ProcessAllRejectingLoop(s.history, NoSummary, s, rejecting, rejectAt, <<>>)

\* What the store does to a batch over n records: every request succeeds,
\* or the records at some positions meet a request that rejects.
RejectPlans(n) ==
  {[rejecting |-> {}, rejectAt |-> "none"]} \cup
  [rejecting : (SUBSET (1..n)) \ {{}}, rejectAt : RejectPoints]

\* The batch is run once over the ledger.
ProcessAllRejectingCall ==
  /\ last.op = "none"
  /\ \E plan \in RejectPlans(Len(history)) :
    \E r \in {ProcessAllFeedbackRejecting(Shared, plan.rejecting, plan.rejectAt)} :
       LearnCall("processAllFeedback", plan,
                 [summary |-> r.summary, calls |-> r.calls], r.s)

\* The feedback whose records fill the ledger of a batch.
BatchInputs == {f \in FeedbackInputs : f.feedback \in {"correct", "incorrect"}}

\* The ledgers of at most n records that recordFeedback builds from inputs.
RECURSIVE LedgersFrom(_, _)
LedgersFrom(inputs, n) ==
  IF n = 0 THEN {<<>>}
  ELSE LET shorter == LedgersFrom(inputs, n - 1)
       IN shorter \cup {Append(h, FeedbackRecord(f, Len(h) + 1)) :
                          h \in shorter, f \in inputs}

InitBatch ==
  /\ db = InitialGraph(97, 97)
  /\ history \in LedgersFrom(BatchInputs, MaxHistory)
  /\ nextId = 0
  /\ pre = [db |-> db, history |-> history]
  /\ last = NoCall
  /\ tasks = <<>>
  /\ trav = IdleTrav

NextBatch == ProcessAllRejectingCall

SpecBatch == InitBatch /\ [][NextBatch]_vars

\* The calls of a batch that succeeded.
C22_Succeeded == SelectSeq(last.ret.calls, LAMBDA call : ~call.failed)

RECURSIVE C22_Sum(_, _)
C22_Sum(calls, field) ==
  IF calls = <<>> THEN 0 ELSE Head(calls).updates[field] + C22_Sum(Tail(calls), field)

\* C22: processAllFeedback attempts every record of the ledger exactly once,
\* in ledger order; a record that fails is counted in errors and neither
\* stops the batch nor undoes the other records: processed + errors is the
\* number of ledger records, totalUpdates sums the counts of the records
\* that succeeded, and every record that succeeded has raised the frequency
\* of its source node.
C22_BatchTally ==
  last.op = "processAllFeedback" =>
    LET summary == last.ret.summary
        calls == last.ret.calls
    IN /\ [i \in DOMAIN calls |-> calls[i].id] =
            [i \in DOMAIN pre.history |-> pre.history[i].id]
       /\ summary.errors = Len(calls) - Len(C22_Succeeded)
       /\ summary.processed = Len(C22_Succeeded)
       /\ summary.processed + summary.errors = Len(pre.history)
       /\ \A field \in DOMAIN NoUpdates :
             summary.totalUpdates[field] = C22_Sum(C22_Succeeded, field)
       /\ \A node \in pre.db.nodes :
             GetNode(db, node.id).frequency =
               node.frequency +
               Cardinality({i \in DOMAIN calls :
                              /\ ~calls[i].failed
                              /\ pre.history[i].sourceNodeId = node.id})

\* A batch over three records whose second record failed: the first and the
\* third were processed and raised the frequency of node 1 by 2.
C22_Witness ==
  /\ last.op = "processAllFeedback"
  /\ Len(pre.history) = 3
  /\ last.ret.calls[1].failed = FALSE
  /\ last.ret.calls[2].failed = TRUE
  /\ last.ret.calls[3].failed = FALSE
  /\ last.ret.summary.processed = 2
  /\ last.ret.summary.errors = 1
  /\ last.ret.summary.totalUpdates.nodesUpdated >= 2
  /\ GetNode(db, 1).frequency = GetNode(pre.db, 1).frequency + 2

----------------------------------------------------------------------------
(* FeedbackManager.getStatistics, GraphLearning.analyzePatterns and         *)
(* suggestImprovements.  A ratio is kept as a numerator and a denominator,  *)
(* and is compared with a threshold by cross-multiplication.  The object    *)
(* feedbackByField is a sequence of entries in the order in which the keys  *)
(* were created, the order Object.entries lists them in.  The edit distance *)
(* of getStatistics is left out: the records of the model carry no          *)
(* originalSuggestion.                                                      *)

\* stats as getStatistics initialises it.  The key partially_correct is not
\* among the initial keys: 0 stands for its absence, which the code reads as
\* 0 (stats[key] || 0).
NoStats(hist) ==
  [total |-> Len(hist), correct |-> 0, partiallyCorrect |-> 0, incorrect |-> 0,
   ignored |-> 0, partially_correct |-> 0, feedbackByField |-> <<>>]

\* record.feedback.replace(/-/g, ''): the verdict without its hyphens.  No
\* verdict holds a hyphen, so every verdict is its own key.
StatsKey(verdict) ==
  CASE verdict = "correct" -> "correct"
    [] verdict = "partially_correct" -> "partially_correct"
    [] verdict = "incorrect" -> "incorrect"
    [] verdict = "ignored" -> "ignored"

NoFieldStats(fieldId) == [fieldId |-> fieldId, correct |-> 0, incorrect |-> 0, total |-> 0]

\* Track by field: the entry of the record's field is created when missing,
\* then counted up.
TrackByField(byField, record) ==
  LET entries == IF \E j \in DOMAIN byField : byField[j].fieldId = record.fieldId
                 THEN byField
                 ELSE Append(byField, NoFieldStats(record.fieldId))
      k == CHOOSE j \in DOMAIN entries : entries[j].fieldId = record.fieldId
  IN [entries EXCEPT
        ![k].total = @ + 1,
        ![k].correct = IF record.feedback = "correct" THEN @ + 1 ELSE @,
        ![k].incorrect = IF record.feedback = "incorrect" THEN @ + 1 ELSE @]

\* The loop of getStatistics over the rest of the ledger.
RECURSIVE StatisticsLoop(_, _)
StatisticsLoop(rest, stats) ==
  IF rest = <<>> THEN stats
  ELSE LET record == Head(rest)
       IN StatisticsLoop(
            Tail(rest),
            [stats EXCEPT ![StatsKey(record.feedback)] = @ + 1,
                          !.feedbackByField = TrackByField(@, record)])

\* FeedbackManager.getStatistics
FeedbackStatistics(hist) == StatisticsLoop(hist, NoStats(hist))

\* correct / Math.max(total, 1)
Accuracy(correct, total) == [num |-> correct, den |-> Max(total, 1)]

\* ratio < n / d
Below(ratio, n, d) == ratio.num * d < n * ratio.den

\* A test for attempts that takes a single attempt for enough.
EnoughAttemptsOne(total) == total >= 1

\* fieldStats.total >= 3
EnoughAttempts(total) == total >= 3

\* The loop of analyzePatterns over the rest of the entries of feedbackByField.
RECURSIVE AnalyzeLoop(_, _)
AnalyzeLoop(rest, patterns) ==
  IF rest = <<>> THEN patterns
  ELSE LET fieldStats == Head(rest)
           accuracy == Accuracy(fieldStats.correct, fieldStats.total)
           entry == [fieldId |-> fieldStats.fieldId, accuracy |-> accuracy,
                     attempts |-> fieldStats.total]
       IN AnalyzeLoop(
            Tail(rest),
            IF Below(accuracy, 5, 10) /\ EnoughAttempts(fieldStats.total)
            THEN [patterns EXCEPT !.problematicFields = Append(@, entry)]
            ELSE IF ~Below(accuracy, 9, 10) /\ EnoughAttempts(fieldStats.total)
            THEN [patterns EXCEPT !.accurateFields = Append(@, entry)]
            ELSE patterns)

\* GraphLearning.analyzePatterns
AnalyzePatterns(hist) ==
  LET stats == FeedbackStatistics(hist)
  IN AnalyzeLoop(stats.feedbackByField,
                 [problematicFields |-> <<>>, accurateFields |-> <<>>,
                  averageAccuracy |-> Accuracy(stats.correct, stats.total)])

\* A test for low overall accuracy with the threshold at 0.5.
IsLowOverallHalf(averageAccuracy) == Below(averageAccuracy, 5, 10)

\* patterns.averageAccuracy < 0.6
IsLowOverall(averageAccuracy) == Below(averageAccuracy, 6, 10)

\* GraphLearning.suggestImprovements; a suggestion without the key fields
\* has the empty list here.
SuggestImprovements(hist) ==
  LET patterns == AnalyzePatterns(hist)
      low == IF Len(patterns.problematicFields) > 0
             THEN <<[type |-> "low_accuracy_fields", priority |-> "high",
                     fields |-> [j \in DOMAIN patterns.problematicFields |->
                                   patterns.problematicFields[j].fieldId]]>>
             ELSE <<>>
      overall == IF IsLowOverall(patterns.averageAccuracy)
                 THEN <<[type |-> "overall_low_accuracy", priority |-> "critical",
                         fields |-> <<>>]>>
                 ELSE <<>>
  IN low \o overall

----------------------------------------------------------------------------
(* SpecAnalysis: the analyses are asked for over a ledger that              *)
(* recordFeedback has built.                                                *)

MaxRecords == 4

\* The feedback that fills the ledger: two fields, the four verdicts ('' is
\* recorded as ignored).
AnalysisInputs ==
  [fieldId : {"education", "skills"},
   feedback : {"correct", "partially_correct", "incorrect", ""},
   sourceNodeId : {1}, userEdit : {<<>>}, affectedNodeIds : {{}}]

InitAnalysis ==
  /\ db = EmptyDb
  /\ history \in LedgersFrom(AnalysisInputs, MaxRecords)
  /\ nextId = 0
  /\ pre = [db |-> db, history |-> history]
  /\ last = NoCall
  /\ tasks = <<>>
  /\ trav = IdleTrav

\* A call that reads the ledger and changes nothing.
LedgerRead(op, arg, ret) ==
  /\ pre' = Snapshot
  /\ last' = [op |-> op, arg |-> arg, ret |-> ret]
  /\ UNCHANGED <<db, history, nextId, tasks, trav>>

GetStatisticsCall == LedgerRead("getStatistics", 0, FeedbackStatistics(history))

AnalyzePatternsCall == LedgerRead("analyzePatterns", 0, AnalyzePatterns(history))

SuggestImprovementsCall ==
  LedgerRead("suggestImprovements", 0, SuggestImprovements(history))

NextAnalysis ==
  \/ GetStatisticsCall
  \/ AnalyzePatternsCall
  \/ SuggestImprovementsCall

SpecAnalysis == InitAnalysis /\ [][NextAnalysis]_vars

----------------------------------------------------------------------------
(* Claims about the analyses, checked under SpecAnalysis *)

\* The records of the ledger with the given field and one of the verdicts.
C25_Records(fields, verdicts) ==
  Cardinality({i \in DOMAIN history :
                 history[i].fieldId \in fields /\ history[i].feedback \in verdicts})

C25_Verdicts == {"correct", "partially_correct", "incorrect", "ignored"}

C25_Fields == {history[i].fieldId : i \in DOMAIN history}

C25_Attempts(field) == C25_Records({field}, C25_Verdicts)

C25_Correct(field) == C25_Records({field}, {"correct"})

\* The fields with at least 3 records and an accuracy below 0.5.
C25_Problematic ==
  {field \in C25_Fields :
     C25_Attempts(field) >= 3 /\ 2 * C25_Correct(field) < C25_Attempts(field)}

\* The fields with at least 3 records and an accuracy of 0.9 or more.
C25_Accurate ==
  {field \in C25_Fields :
     C25_Attempts(field) >= 3 /\ 10 * C25_Correct(field) >= 9 * C25_Attempts(field)}

C25_Listed(entries) == {entries[j].fieldId : j \in DOMAIN entries}

\* C25: analyzePatterns lists a field as problematic exactly when it has at
\* least 3 ledger records and its accuracy (Correct records / all records of
\* the field) is below 0.5, and as accurate exactly when it has at least 3
\* records and an accuracy of 0.9 or more; no field is in both lists, a field
\* with fewer than 3 records is in neither, and the overall accuracy is
\* Correct records / all records (0 when the ledger is empty).
C25_PatternLists ==
  last.op = "analyzePatterns" =>
    LET patterns == last.ret
    IN /\ C25_Listed(patterns.problematicFields) = C25_Problematic
       /\ Len(patterns.problematicFields) = Cardinality(C25_Problematic)
       /\ C25_Listed(patterns.accurateFields) = C25_Accurate
       /\ Len(patterns.accurateFields) = Cardinality(C25_Accurate)
       /\ C25_Listed(patterns.problematicFields) \cap
             C25_Listed(patterns.accurateFields) = {}
       /\ \A field \in C25_Fields :
             C25_Attempts(field) < 3 =>
               field \notin C25_Listed(patterns.problematicFields) \cup
                            C25_Listed(patterns.accurateFields)
       /\ patterns.averageAccuracy.num * Max(Len(history), 1) =
             C25_Records(C25_Fields, {"correct"}) * patterns.averageAccuracy.den

\* Three Incorrect verdicts on education and one Correct verdict on skills:
\* education is listed as problematic, skills in neither list, and the
\* overall accuracy is 1/4.
C25_Witness ==
  /\ last.op = "analyzePatterns"
  /\ Len(history) = 4
  /\ C25_Records({"education"}, {"incorrect"}) = 3
  /\ C25_Records({"skills"}, {"correct"}) = 1
  /\ C25_Listed(last.ret.problematicFields) = {"education"}
  /\ last.ret.accurateFields = <<>>
  /\ last.ret.averageAccuracy.num * 4 = last.ret.averageAccuracy.den

C26_Priority(priority) ==
  SelectSeq(last.ret, LAMBDA suggestion : suggestion.priority = priority)

\* C26: suggestImprovements returns a recommendation of priority critical
\* exactly when the overall accuracy over the recorded feedback (0 over an
\* empty ledger) is below 0.6, and one of priority high that names the
\* problematic fields exactly when analyzePatterns reports at least one;
\* with no low accuracy and no problematic field it returns none.
C26_Recommendations ==
  last.op = "suggestImprovements" =>
    LET low == 10 * C25_Records(C25_Fields, {"correct"}) < 6 * Max(Len(history), 1)
        critical == C26_Priority("critical")
        high == C26_Priority("high")
    IN /\ Len(critical) = IF low THEN 1 ELSE 0
       /\ Len(high) = IF C25_Problematic # {} THEN 1 ELSE 0
       /\ \A j \in DOMAIN high :
             /\ Range(high[j].fields) = C25_Problematic
             /\ Len(high[j].fields) = Cardinality(C25_Problematic)
       /\ Len(last.ret) = Len(critical) + Len(high)
       /\ (~low /\ C25_Problematic = {}) => last.ret = <<>>

\* Over two Correct and two Incorrect verdicts, three of them on education,
\* the accuracy of 0.5 is below 0.6 and education is problematic: both
\* recommendations are returned.
C26_Witness ==
  /\ last.op = "suggestImprovements"
  /\ Len(history) = 4
  /\ C25_Records(C25_Fields, {"correct"}) = 2
  /\ C25_Problematic = {"education"}
  /\ Len(C26_Priority("critical")) = 1
  /\ Len(C26_Priority("high")) = 1

\* The ledger holds two Correct verdicts out of three: no recommendation.
C26_WitnessNone ==
  /\ last.op = "suggestImprovements"
  /\ Len(history) = 3
  /\ C25_Records(C25_Fields, {"correct"}) = 2
  /\ last.ret = <<>>

C27_ByField(field) ==
  SelectSeq(last.ret.feedbackByField, LAMBDA entry : entry.fieldId = field)

\* What C27 says of total, of the listed verdict counters and of
\* feedbackByField.
C27_Counts(counters) ==
  last.op = "getStatistics" =>
    LET stats == last.ret
    IN /\ stats.total = Len(history)
       /\ "correct" \in counters =>
            stats.correct = C25_Records(C25_Fields, {"correct"})
       /\ "partiallyCorrect" \in counters =>
            stats.partiallyCorrect = C25_Records(C25_Fields, {"partially_correct"})
       /\ "incorrect" \in counters =>
            stats.incorrect = C25_Records(C25_Fields, {"incorrect"})
       /\ "ignored" \in counters =>
            stats.ignored = C25_Records(C25_Fields, {"ignored"})
       /\ "partiallyCorrect" \in counters =>
            stats.correct + stats.partiallyCorrect + stats.incorrect + stats.ignored
              = stats.total
       /\ {entry.fieldId : entry \in Range(stats.feedbackByField)} = C25_Fields
       /\ \A field \in C25_Fields :
             /\ Len(C27_ByField(field)) = 1
             /\ C27_ByField(field)[1].total = C25_Attempts(field)
             /\ C27_ByField(field)[1].correct = C25_Correct(field)
             /\ C27_ByField(field)[1].incorrect = C25_Records({field}, {"incorrect"})

\* C27: for every ledger, getStatistics reports total = number of records;
\* the counts it reports for the four verdicts (correct, partiallyCorrect,
\* incorrect, ignored) each equal the number of records with that verdict
\* and sum to total; and feedbackByField[fieldId] has total = the records of
\* the field, correct = its Correct records, incorrect = its Incorrect ones.
C27_VerdictCounts ==
  C27_Counts({"correct", "partiallyCorrect", "incorrect", "ignored"})

\* C27 without the counter partiallyCorrect and without the sum.
C27_CountsButPartial == C27_Counts({"correct", "incorrect", "ignored"})

\* getStatistics has counted a ledger that holds a partially_correct record.
C27_PartialCounted ==
  /\ last.op = "getStatistics"
  /\ C25_Records(C25_Fields, {"partially_correct"}) > 0
  /\ last.ret.partially_correct = C25_Records(C25_Fields, {"partially_correct"})
  /\ last.ret.partiallyCorrect = 0

----------------------------------------------------------------------------
(* FeedbackManager.getNodeInsights *)

\* accuracy: null
NoAccuracy == [num |-> 0, den |-> 0]

Verdicts(feedback, verdict) ==
  Len(SelectSeq(feedback, LAMBDA f : f.feedback = verdict))

\* A weighted score in which a partially correct use counts as a correct one.
WeightedScoreFullPartial(correctCount, partialCount, totalRated) ==
  [num |-> 2 * correctCount + 2 * partialCount, den |-> 2 * Max(totalRated, 1)]

\* (correctCount + partialCount * 0.5) / Math.max(totalRated, 1)
WeightedScore(correctCount, partialCount, totalRated) ==
  [num |-> 2 * correctCount + partialCount, den |-> 2 * Max(totalRated, 1)]

\* Math.min(feedback.length / 10, 1)
UseFrequency(uses) == [num |-> Min(uses, 10), den |-> 10]

\* 0.5 + (weightedScore * 0.5) * useFrequency
InsightConfidence(weightedScore, useFrequency) ==
  [num |-> weightedScore.den * useFrequency.den + weightedScore.num * useFrequency.num,
   den |-> 2 * weightedScore.den * useFrequency.den]

\* Math.min(confidence, 1.0)
AtMostOne(ratio) == IF ratio.num > ratio.den THEN [num |-> 1, den |-> 1] ELSE ratio

\* The recommendations of getNodeInsights, each by a word of its text.
Recommendations(feedback, correctCount, incorrectCount) ==
  LET found ==
        (IF incorrectCount > correctCount THEN <<"Warning">> ELSE <<>>) \o
        (IF Len(feedback) < 3 THEN <<"Limited">> ELSE <<>>) \o
        (IF correctCount = Len(feedback) THEN <<"Excellent">> ELSE <<>>)
  IN IF Len(found) > 0 THEN found ELSE <<"Performing">>

GetNodeInsights(hist, nodeId) ==
  LET feedback == GetFeedbackForNode(hist, nodeId)
      correctCount == Verdicts(feedback, "correct")
      partialCount == Verdicts(feedback, "partially_correct")
      incorrectCount == Verdicts(feedback, "incorrect")
      totalRated == correctCount + partialCount + incorrectCount
      weightedScore == WeightedScore(correctCount, partialCount, totalRated)
      confidence == InsightConfidence(weightedScore, UseFrequency(Len(feedback)))
  IN IF Len(feedback) = 0
     THEN [nodeId |-> nodeId, confidence |-> [num |-> 1, den |-> 2],
           accuracy |-> NoAccuracy, totalUses |-> 0, correctUses |-> 0,
           partialUses |-> 0, incorrectUses |-> 0, recommendations |-> <<"Needs">>]
     ELSE [nodeId |-> nodeId, confidence |-> AtMostOne(confidence),
           accuracy |-> Accuracy(correctCount, totalRated),
           totalUses |-> Len(feedback), correctUses |-> correctCount,
           partialUses |-> partialCount, incorrectUses |-> incorrectCount,
           recommendations |-> Recommendations(feedback, correctCount, incorrectCount)]

----------------------------------------------------------------------------
(* SpecInsights: insights are asked for over ledgers of up to MaxUses       *)
(* records, reported kind after kind.                                       *)

MaxUses == 10

\* The kinds of feedback in the ledger: the four verdicts on node 1, and a
\* Correct verdict on node 2 that lists node 1 among the affected nodes.
InsightInputs ==
  <<[fieldId |-> "skills", sourceNodeId |-> 1, feedback |-> "correct",
     userEdit |-> <<>>, affectedNodeIds |-> {}],
    [fieldId |-> "skills", sourceNodeId |-> 1, feedback |-> "partially_correct",
     userEdit |-> <<>>, affectedNodeIds |-> {}],
    [fieldId |-> "skills", sourceNodeId |-> 1, feedback |-> "incorrect",
     userEdit |-> <<>>, affectedNodeIds |-> {}],
    [fieldId |-> "skills", sourceNodeId |-> 1, feedback |-> "",
     userEdit |-> <<>>, affectedNodeIds |-> {}],
    [fieldId |-> "skills", sourceNodeId |-> 2, feedback |-> "correct",
     userEdit |-> <<>>, affectedNodeIds |-> {1}]>>

\* The ledger after recordFeedback has recorded the feedback n more times.
RECURSIVE RecordedTimes(_, _, _)
RecordedTimes(h, feedback, n) ==
  IF n = 0 THEN h
  ELSE RecordedTimes(Append(h, FeedbackRecord(feedback, Len(h) + 1)), feedback, n - 1)

\* The ledgers of at most n records in which the kinds come one after the
\* other, each any number of times.
RECURSIVE LedgersInBlocks(_, _)
LedgersInBlocks(kinds, n) ==
  IF kinds = <<>> THEN {<<>>}
  ELSE UNION {{RecordedTimes(h, kinds[Len(kinds)], k) : k \in 0..(n - Len(h))} :
                h \in LedgersInBlocks(SubSeq(kinds, 1, Len(kinds) - 1), n)}

InsightNodeIds == {1, 2, 3}

InitInsights ==
  /\ db = EmptyDb
  /\ history \in LedgersInBlocks(InsightInputs, MaxUses)
  /\ nextId = 0
  /\ pre = [db |-> db, history |-> history]
  /\ last = NoCall
  /\ tasks = <<>>
  /\ trav = IdleTrav

GetNodeInsightsCall == \E nodeId \in InsightNodeIds :
  LedgerRead("getNodeInsights", nodeId, GetNodeInsights(history, nodeId))

NextInsights == GetNodeInsightsCall

SpecInsights == InitInsights /\ [][NextInsights]_vars

\* The ledger records that have the node of the call as sourceNodeId or in
\* affectedNodeIds, and those of them with the given verdict.
C28_Uses ==
  {i \in DOMAIN history :
     history[i].sourceNodeId = last.arg \/ last.arg \in history[i].affectedNodeIds}

C28_Count(verdict) == Cardinality({i \in C28_Uses : history[i].feedback = verdict})

C28_Rated == C28_Count("correct") + C28_Count("partially_correct") + C28_Count("incorrect")

\* C28: getNodeInsights(nodeId) returns confidence 0.5 and no accuracy when
\* no ledger record has the node as sourceNodeId or in affectedNodeIds;
\* otherwise confidence = 0.5 + 0.5 x ((correct + 0.5 x partial) /
\* max(correct + partial + incorrect, 1)) x min(recordCount / 10, 1).  The
\* confidence is always within [0.5, 1.0] and is below 1.0 whenever the node
\* has fewer than 10 records.  (Multiplied out over the denominator
\* 40 x max(rated, 1): confidence = (20 x rated' + (2 x correct + partial) x
\* min(recordCount, 10)) / (40 x rated').)
C28_InsightConfidence ==
  last.op = "getNodeInsights" =>
    LET confidence == last.ret.confidence
        uses == Cardinality(C28_Uses)
        rated == Max(C28_Rated, 1)
    IN /\ uses = 0 =>
            /\ 2 * confidence.num = confidence.den
            /\ last.ret.accuracy = NoAccuracy
       /\ uses > 0 =>
            confidence.num * (40 * rated) =
              confidence.den *
                (20 * rated +
                 (2 * C28_Count("correct") + C28_Count("partially_correct")) *
                   Min(uses, 10))
       /\ confidence.den > 0
       /\ 2 * confidence.num >= confidence.den
       /\ confidence.num <= confidence.den
       /\ uses < 10 => confidence.num < confidence.den

\* Ten records on node 1, nine Correct verdicts and one Partially correct
\* one of them reported on node 2 with node 1 affected.
C28_Witness ==
  /\ last.op = "getNodeInsights"
  /\ last.arg = 1
  /\ Cardinality(C28_Uses) = 10
  /\ C28_Count("correct") = 9
  /\ C28_Count("partially_correct") = 1
  /\ \E i \in C28_Uses : history[i].sourceNodeId = 2
  /\ last.ret.confidence.num * 40 = last.ret.confidence.den * 39

\* Ten Correct verdicts: the confidence is 1.0.
C28_WitnessOne ==
  /\ last.op = "getNodeInsights"
  /\ Cardinality(C28_Uses) = 10
  /\ C28_Count("correct") = 10
  /\ last.ret.confidence.num = last.ret.confidence.den

----------------------------------------------------------------------------
(* SpecIngest: nodes of any type are submitted to the store, read and       *)
(* deleted; last.log lists the calls made so far, the last one included.    *)

\* isValidEntityType
IsValidEntityType(type) ==
  type \in {"skill", "role", "org", "project", "achievement",
            "education", "tech_skill", "soft_skill"}

\* The nodes submitted: a type of the enum, a type outside it.
AnyNodeInputs ==
  [id : NodeIds, type : {"skill", "widget"}, label : {Str_React},
   confidence : {95}, frequency : {1}, source : {"resume"}]

InitIngest ==
  /\ db = EmptyDb
  /\ history = <<>>
  /\ nextId = 0
  /\ pre = [db |-> EmptyDb, history |-> <<>>]
  /\ last = [op |-> "none", arg |-> 0, ret |-> 0, log |-> <<>>]
  /\ tasks = <<>>
  /\ trav = IdleTrav

IngestCall(op, arg, ret, d) ==
  /\ Len(last.log) < MaxCalls
  /\ db' = d
  /\ pre' = Snapshot
  /\ last' = [op |-> op, arg |-> arg, ret |-> ret,
              log |-> Append(last.log, [op |-> op, arg |-> arg])]
  /\ UNCHANGED <<history, nextId, tasks, trav>>

IngestAddNode == \E node \in AnyNodeInputs :
  IngestCall("addNode", node, node, AddNode(db, node))

IngestGetNode == \E nodeId \in NodeIds :
  IngestCall("getNode", nodeId, GetNode(db, nodeId), db)

IngestDeleteNode == \E nodeId \in NodeIds :
  IngestCall("deleteNode", nodeId, Undefined, DeleteNode(db, nodeId))

NextIngest ==
  \/ IngestAddNode
  \/ IngestGetNode
  \/ IngestDeleteNode

SpecIngest == InitIngest /\ [][NextIngest]_vars

\* The node is retrievable: by getNode, by getNodesByType or by
\* searchNodesByLabel.
C29_Retrievable(d, node) ==
  \/ GetNode(d, node.id) = node
  \/ node \in Range(GetNodesByType(d, node.type))
  \/ node \in Range(SearchNodesByLabel(d, node.label))

\* C29: addNode called with a node whose type is not one of the eight
\* entity types fails with a validation error and leaves the store as it
\* was: the node is not retrievable by getNode, getNodesByType or
\* searchNodesByLabel afterwards.
C29_InvalidTypeRejected ==
  (last.op = "addNode" /\ ~IsValidEntityType(last.arg.type))
  => /\ last.ret # last.arg
     /\ db = pre.db
     /\ ~C29_Retrievable(db, last.arg)

\* addNode has resolved with a node of a type outside the enum, and the node
\* is stored and indexed.
C29_InvalidTypeStored ==
  /\ last.op = "addNode"
  /\ ~IsValidEntityType(last.arg.type)
  /\ last.ret = last.arg
  /\ GetNode(db, last.arg.id) = last.arg
  /\ last.arg \in Range(GetNodesByType(db, last.arg.type))
  /\ last.arg \in Range(SearchNodesByLabel(db, last.arg.label))

\* What the calls of the log leave stored under the id: the node of the last
\* addNode for it, nothing when there was none or a deleteNode came after.
RECURSIVE C30_LastSubmitted(_, _)
C30_LastSubmitted(log, id) ==
  IF log = <<>> THEN Undefined
  ELSE LET call == log[Len(log)]
       IN IF call.op = "addNode" /\ call.arg.id = id THEN call.arg
          ELSE IF call.op = "deleteNode" /\ call.arg = id THEN Undefined
          ELSE C30_LastSubmitted(SubSeq(log, 1, Len(log) - 1), id)

C30_WitnessStored ==
  /\ last.op = "getNode"
  /\ last.arg = 1
  /\ Len(last.log) = 3
  /\ last.log[1].op = "addNode"
  /\ last.log[2].op = "addNode"
  /\ last.log[1].arg.id = 1
  /\ last.log[2].arg.id = 1
  /\ last.log[1].arg # last.log[2].arg
  /\ last.ret = last.log[2].arg

----------------------------------------------------------------------------
(* GraphStorage.clear: one readwrite transaction over both stores with a    *)
(* clear request on each.  A request that fires onerror rejects the         *)
(* promise; the error is not handled further, so the transaction aborts,    *)
(* its writes are rolled back and a request still pending is not run.       *)

\* IDBObjectStore.clear on the nodes store: the records go, and the entries
\* of its indexes with them.
ClearNodes(d) == [d EXCEPT !.nodes = {}, !.nodeType = {}]

\* IDBObjectStore.clear on the edges store.
ClearEdges(d) ==
  [d EXCEPT !.edges = {}, !.edgeSource = {}, !.edgeTarget = {}, !.edgeType = {}]

\* An abort that leaves in place what the transaction has written.
AbortKeepsWrites(before, written) == written

\* The abort of a transaction: the stores are as they were when it began.
Abort(before, written) == before

\* What the two requests of clear may do.
ClearOutcomes == {"success", "nodesError", "edgesError"}

Clear(d, outcome) ==
  LET afterNodes == IF outcome = "nodesError" THEN d ELSE ClearNodes(d)
      afterEdges == IF outcome = "success" THEN ClearEdges(afterNodes) ELSE afterNodes
  IN IF outcome = "success"
     THEN [db |-> afterEdges, rejected |-> FALSE]
     ELSE [db |-> Abort(d, afterEdges), rejected |-> TRUE]

----------------------------------------------------------------------------
(* SpecMaintain: nodes and edges are added and deleted, the store is        *)
(* cleared and its statistics are asked for.                                *)

ClearCall == \E outcome \in ClearOutcomes :
  \E r \in {Clear(db, outcome)} :
     StoreCall("clear", outcome, [rejected |-> r.rejected], r.db)

\* GraphStorage.getStatistics(): the class declares no member of that name,
\* so the expression is undefined and calling it throws a TypeError.
StorageGetStatisticsCall ==
  StoreCall("getStatistics", 0, [threw |-> TRUE], db)

NextMaintain ==
  \/ AddNodeCall
  \/ DeleteNodeCall
  \/ AddEdgeCall
  \/ DeleteEdgeCall
  \/ ClearCall
  \/ StorageGetStatisticsCall

SpecMaintain == InitStore /\ [][NextMaintain]_vars

C32_WitnessSuccess ==
  /\ last.op = "clear"
  /\ ~last.ret.rejected
  /\ pre.db.nodes # {}
  /\ pre.db.edges # {}
  /\ db = EmptyDb

\* C33: GraphStorage.getStatistics() returns nodeCount equal to the number
\* of distinct node ids stored and edgeCount equal to the number of distinct
\* edge ids stored, after any sequence of addNode, addEdge, deleteNode,
\* deleteEdge and clear.
C33_StatisticsCount ==
  last.op = "getStatistics" =>
    /\ ~last.ret.threw
    /\ last.ret.nodeCount = Cardinality({node.id : node \in db.nodes})
    /\ last.ret.edgeCount = Cardinality({edge.id : edge \in db.edges})

\* getStatistics has been called on a store of two nodes and two edges and
\* has thrown.
C33_Thrown ==
  /\ last.op = "getStatistics"
  /\ Cardinality(db.nodes) = 2
  /\ Cardinality(db.edges) = 2
  /\ last.ret.threw

----------------------------------------------------------------------------
(* SpecWalk: nodes of a stored graph are deleted, then findRelated (which   *)
(* awaits bfs) or findPath walks the graph.  tasks logs the ids that the    *)
(* walk pushes on its queue, in the order of the pushes.                    *)

WalkNode(id) ==
  [id |-> id, type |-> "skill", label |-> Str_Vue,
   confidence |-> 95, frequency |-> 1, source |-> "resume"]

\* The store after addNode of each of the given ids.
RECURSIVE AddWalkNodes(_, _)
AddWalkNodes(d, ids) ==
  IF ids = {} THEN d
  ELSE LET id == CHOOSE x \in ids : TRUE
       IN AddWalkNodes(AddNode(d, WalkNode(id)), ids \ {id})

MaxWalkEdges == 3

\* Every node stored, and up to MaxWalkEdges edges between them: self-loops
\* and cycles included.
WalkGraphs ==
  {AddEdges(AddWalkNodes(EmptyDb, TravNodeIds), E) :
     E \in {F \in SUBSET {TravEdge(a, b) : a \in TravNodeIds, b \in TravNodeIds} :
              Cardinality(F) <= MaxWalkEdges}}

\* The depths findRelated is called with: none, its default of 2, and the
\* largest.
WalkDepths == {0, 2, MaxDepthArg}

InitWalk ==
  /\ db \in WalkGraphs
  /\ history = <<>>
  /\ nextId = 0
  /\ pre = [db |-> db, history |-> <<>>]
  /\ last = NoCall
  /\ tasks = <<>>
  /\ trav = IdleTrav

\* The ids of the entries that an iteration has pushed: the queue after it is
\* the queue before it less its head, followed by the pushed entries.
Pushed(before, after) ==
  [i \in 1..(Len(after) - (Len(before) - 1)) |-> after[Len(before) - 1 + i][1]]

\* deleteNode of a stored node, once before the walk.
WalkDeleteNodeCall == \E nodeId \in TravNodeIds :
  /\ trav.pc = "idle"
  /\ last.op = "none"
  /\ GetNode(db, nodeId) # Undefined
  /\ StoreCall("deleteNode", nodeId, Undefined, DeleteNode(db, nodeId))

WalkFindRelatedCall == \E nodeId \in TravNodeIds : \E depth \in WalkDepths :
  /\ trav.pc = "idle"
  /\ trav' = BfsTrav(nodeId, depth)
  /\ tasks' = <<nodeId>>
  /\ UNCHANGED <<db, history, nextId, pre, last>>

WalkBfsLoop ==
  /\ trav.pc = "bfs"
  /\ trav.queue # <<>>
  /\ trav' = BfsIterate(trav, db)
  /\ tasks' = tasks \o Pushed(trav.queue, trav'.queue)
  /\ UNCHANGED <<db, history, nextId, pre, last>>

WalkFindPathCall == \E startId \in TravNodeIds : \E endId \in TravNodeIds :
  /\ trav.pc = "idle"
  /\ IF startId = endId
     THEN /\ trav' = [pc |-> "done"]
          /\ last' = [op |-> "findPath", arg |-> <<startId, endId>>,
                      ret |-> <<startId>>]
          /\ UNCHANGED tasks
     ELSE /\ trav' = FindPathTrav(startId, endId)
          /\ tasks' = <<startId>>
          /\ UNCHANGED last
  /\ UNCHANGED <<db, history, nextId, pre>>

WalkFindPathLoop ==
  /\ trav.pc = "findPath"
  /\ trav.queue # <<>>
  /\ \E r \in {FindPathIterate(trav, db)} :
       IF r.found
       THEN /\ trav' = [pc |-> "done"]
            /\ last' = [op |-> "findPath", arg |-> <<trav.startId, trav.endId>>,
                        ret |-> r.ret]
            /\ tasks' = tasks \o Pushed(trav.queue, r.queue)
       ELSE /\ trav' = [trav EXCEPT !.visited = r.visited, !.queue = r.queue]
            /\ tasks' = tasks \o Pushed(trav.queue, r.queue)
            /\ UNCHANGED last
  /\ UNCHANGED <<db, history, nextId, pre>>

NextWalk ==
  \/ WalkDeleteNodeCall
  \/ WalkFindRelatedCall
  \/ WalkBfsLoop
  \/ FindRelatedReturn
  \/ WalkFindPathCall
  \/ WalkFindPathLoop
  \/ FindPathReturn

SpecWalk == InitWalk /\ [][NextWalk]_vars

\* Each await of getOutgoing resolves, and the loop goes on from there: an
\* iteration or a return that stays possible is taken.
SpecWalkFair ==
  /\ SpecWalk
  /\ WF_vars(WalkBfsLoop)
  /\ WF_vars(FindRelatedReturn)
  /\ WF_vars(WalkFindPathLoop)
  /\ WF_vars(FindPathReturn)

\* No id has been pushed on the queue twice.
C34_EnqueuedOnce ==
  \A i \in DOMAIN tasks : \A j \in DOMAIN tasks : tasks[i] = tasks[j] => i = j

\* C34: bfs and findPath terminate on every finite graph, including graphs
\* with cycles and self-loops and graphs with edges whose target node does
\* not exist: each node id is enqueued at most once, and every walk that has
\* started returns.
C34_Terminates ==
  /\ []C34_EnqueuedOnce
  /\ (trav.pc \in {"bfs", "findPath"}) ~> (trav.pc = "done")

\* findRelated has returned from a walk that started on a node with a
\* self-loop, went round a cycle back to the start and pushed the id of a
\* node that is not stored.
C34_Witness ==
  /\ trav.pc = "done"
  /\ last.op = "findRelated"
  /\ \E e \in db.edges : e.source = last.arg[1] /\ e.target = last.arg[1]
  /\ \E e \in db.edges : \E f \in db.edges :
        /\ e.source = last.arg[1] /\ e.target # last.arg[1]
        /\ f.source = e.target /\ f.target = last.arg[1]
  /\ \E i \in DOMAIN tasks : GetNode(db, tasks[i]) = Undefined

\* findPath has given up on a graph with a cycle, every id pushed once.
C34_WitnessPath ==
  /\ trav.pc = "done"
  /\ last.op = "findPath"
  /\ last.ret = <<>>
  /\ Len(tasks) = 2
  /\ \E e \in db.edges : \E f \in db.edges :
        /\ e.source = tasks[1] /\ e.target = tasks[2]
        /\ f.source = tasks[2] /\ f.target = tasks[1]

\* C35: after any sequence of store operations (deleteNode included) every
\* id returned by findRelated, and every id on a path returned by findPath,
\* is the id of a node that is stored.
C35_ReturnedIdsStored ==
  last.op \in {"findRelated", "findPath"} =>
    \A i \in DOMAIN last.ret : GetNode(db, last.ret[i]) # Undefined

\* findRelated has returned the id of a deleted node.
C35_DanglingRelated ==
  /\ last.op = "findRelated"
  /\ pre.db # db
  /\ \E i \in DOMAIN last.ret :
        /\ GetNode(db, last.ret[i]) = Undefined
        /\ GetNode(pre.db, last.ret[i]) # Undefined

\* findPath has returned a path that ends at a deleted node.
C35_DanglingPath ==
  /\ last.op = "findPath"
  /\ Len(last.ret) >= 2
  /\ GetNode(db, last.ret[Len(last.ret)]) = Undefined

----------------------------------------------------------------------------
(* Claims about the nodes the learner creates from corrections *)

\* The nodes created from corrections.
C36_Learned == {node \in db.nodes : node.source = "user_feedback"}

\* C36: GraphLearner never creates two nodes for the same corrected text:
\* after any sequence or interleaving of processFeedback calls over Incorrect
\* records that carry the same userEdit, at most one node with source
\* user_feedback and that label exists.
C36_OneNodePerText ==
  \A n \in C36_Learned : \A m \in C36_Learned : n.label = m.label => n.id = m.id

\* Two handleFeedback tasks with the same correction have run to their end,
\* and two nodes carry its text.
C36_TwoNodes ==
  /\ Len(tasks) = 2
  /\ tasks[1].pc = "done"
  /\ tasks[2].pc = "done"
  /\ tasks[1].record.feedback = "incorrect"
  /\ tasks[1].record.userEdit = tasks[2].record.userEdit
  /\ tasks[1].record.sourceNodeId = tasks[2].record.sourceNodeId
  /\ \E n \in C36_Learned : \E m \in C36_Learned :
        n.id # m.id /\ n.label = m.label /\ n.label = Trim(tasks[1].record.userEdit)

\* One record with a padded correction has been processed twice, one call
\* after the other, and two nodes carry its text.
C36_TwoNodesInSequence ==
  /\ last.op = "processFeedback"
  /\ Len(history) = 1
  /\ \E n \in C36_Learned : \E m \in C36_Learned :
        n.id # m.id /\ n.label = m.label /\ n.label = Trim(history[1].userEdit)

\* The stored node n is in the store as it was.
C37_Kept(n) == n \in db.nodes

\* The stored node n is in the store with nothing but its confidence and its
\* frequency changed.
C37_Updated(n) ==
  \E m \in db.nodes :
    /\ m.id = n.id
    /\ m = [n EXCEPT !.confidence = m.confidence, !.frequency = m.frequency]

\* The record is a correction: an Incorrect verdict with an edit.
C37_IsCorrection(feedback) ==
  feedback.feedback = "incorrect" /\ feedback.userEdit # <<>>

\* C37: processFeedback changes nothing but the source node's confidence and
\* frequency and, in the correction case, adds a node and an edge: the
\* source node keeps its id, type and label, every other stored node and
\* every stored edge is in the store as it was, and the ledger is unchanged;
\* when sourceNodeId is the id of no stored node, no stored node is changed.
\* A call that finds no record changes nothing.
C37_ProcessFeedbackFrame ==
  last.op = "processFeedback" =>
    /\ history = pre.history
    /\ \A e \in pre.db.edges : e \in db.edges
    /\ IF C2_Feedback = Undefined
       THEN last.ret.error /\ db = pre.db
       ELSE /\ \A n \in pre.db.nodes :
                 IF n.id = C2_Feedback.sourceNodeId THEN C37_Updated(n) ELSE C37_Kept(n)
            /\ GetNode(pre.db, C2_Feedback.sourceNodeId) = Undefined =>
                 \A n \in pre.db.nodes : C37_Kept(n)
            /\ Cardinality(C20_NewNodes) <= 1
            /\ Cardinality(C20_NewEdges) <= Cardinality(C20_NewNodes)
            /\ C20_NewNodes # {} => C37_IsCorrection(C2_Feedback)
            /\ \A e \in C20_NewEdges :
                 /\ e.source = C2_Feedback.sourceNodeId
                 /\ e.target \in {n.id : n \in C20_NewNodes}

\* A correction on a stored source node has been processed: the node's
\* confidence and frequency have changed, a node and an edge are new, and
\* the other node and the stored edge are as they were.
C37_Witness ==
  /\ C2_Applies
  /\ C37_IsCorrection(C2_Feedback)
  /\ C2_After.confidence # C2_Before.confidence
  /\ C2_After.frequency # C2_Before.frequency
  /\ Cardinality(C20_NewNodes) = 1
  /\ Cardinality(C20_NewEdges) = 1
  /\ Cardinality(pre.db.nodes) = 2
  /\ pre.db.edges # {}

\* A correction whose sourceNodeId is the id of no stored node has been
\* processed: a node and an edge are new, no stored node has changed.
C37_WitnessUnresolved ==
  /\ last.op = "processFeedback"
  /\ C2_Feedback # Undefined
  /\ C2_Feedback.sourceNodeId # 0
  /\ GetNode(pre.db, C2_Feedback.sourceNodeId) = Undefined
  /\ C20_NewNodes # {}
  /\ \A n \in pre.db.nodes : n \in db.nodes

----------------------------------------------------------------------------
(* SpecRanked: the learner updates the confidence and the frequency of      *)
(* stored nodes, then findMatches is called.  pre keeps the store as it was *)
(* before the updates.                                                      *)

MaxLearned == 2

\* The nodes the learner has updated.
LearnedNodes(d) == {node \in d.nodes : node.frequency > 1}

\* What processFeedback writes for a stored source node: the confidence moved
\* by the verdict, the frequency raised.
LearnerWrites(node, verdict) ==
  [UpdateNodeConfidence(node, [feedback |-> verdict]) EXCEPT !.frequency = @ + 1]

LearnerUpdate == \E node \in db.nodes : \E verdict \in {"correct", "incorrect"} :
  /\ trav.pc = "idle"
  /\ node.frequency = 1
  /\ Cardinality(LearnedNodes(db)) < MaxLearned
  /\ db' = AddNode(db, LearnerWrites(node, verdict))
  /\ UNCHANGED <<history, nextId, pre, last, tasks, trav>>

\* Nodes 1 and 2 are labelled Re (two edits from role, a score of 0.5) or V;
\* node 3, when stored, is a skill labelled Re.
RankedGraphs ==
  {AddNodes(EmptyDb, {MatchNode(1, t1, l1), MatchNode(2, t2, l2)} \cup N3) :
     t1 \in NodeTypes, l1 \in {Str_Re, Str_Vue},
     t2 \in NodeTypes, l2 \in {Str_Re, Str_Vue},
     N3 \in {{}, {MatchNode(3, "skill", Str_Re)}}}

InitRanked ==
  /\ db \in RankedGraphs
  /\ history = <<>>
  /\ nextId = 0
  /\ pre = [db |-> db, history |-> <<>>]
  /\ last = NoCall
  /\ tasks = <<>>
  /\ trav = IdleTrav

RankedAnalyses ==
  [entityTypes : {<<"skill", "role">>, <<"role">>},
   fullContext : {NoFullContext,
                  [present |-> TRUE, contextStrength |-> 50,
                   intent |-> "professional_title"],
                  [present |-> TRUE, contextStrength |-> 100,
                   intent |-> "professional_title"]},
   fieldElement : {NoFieldElement,
                   [present |-> TRUE, hasForm |-> TRUE,
                    siblings |-> <<"professional_title">>]}]

RankedFindMatchesCall ==
  /\ trav.pc = "idle"
  /\ \E fieldAnalysis \in RankedAnalyses : \E maxSuggestions \in {1, 3} :
       \E matches \in {AllMatches(db, fieldAnalysis)} :
         /\ trav' = [pc |-> "done"]
         /\ last' = [op |-> "findMatches", arg |-> <<fieldAnalysis, maxSuggestions>>,
                     ret |-> FindMatchesFrom(matches, maxSuggestions)]
  /\ UNCHANGED <<db, history, nextId, pre, tasks>>

NextRanked ==
  \/ LearnerUpdate
  \/ RankedFindMatchesCall

SpecRanked == InitRanked /\ [][NextRanked]_vars

\* The ids of a list of nodes, in the order of the list.
C38_Ids(nodes) == [i \in DOMAIN nodes |-> nodes[i].id]

\* C38: the list returned by findMatches depends only on the request and on
\* the ids, types and labels of the nodes: the store after the learner's
\* updates of confidence and frequency yields the same ids in the same order
\* as the store before them, for the same request.
C38_RankingIgnoresLearning ==
  last.op = "findMatches" =>
    /\ {[n EXCEPT !.confidence = 0, !.frequency = 0] : n \in db.nodes}
         = {[n EXCEPT !.confidence = 0, !.frequency = 0] : n \in pre.db.nodes}
    /\ \E matches \in {AllMatches(pre.db, last.arg[1])} :
         C38_Ids(last.ret) = C38_Ids(FindMatchesFrom(matches, last.arg[2]))

\* findMatches has returned a node whose confidence the learner has lowered
\* ahead of a node whose confidence it has raised.
C38_Witness ==
  /\ last.op = "findMatches"
  /\ Len(last.ret) >= 2
  /\ last.ret[1].confidence < GetNode(pre.db, last.ret[1].id).confidence
  /\ last.ret[2].confidence > GetNode(pre.db, last.ret[2].id).confidence
  /\ last.ret[1].frequency > 1

\* C39: every node that GraphLearner creates from a correction has a
\* non-empty label, for every userEdit that the correction branch accepts,
\* text made only of whitespace included.
C39_LabelNonEmpty ==
  \A node \in db.nodes : node.source = "user_feedback" => node.label # <<>>

\* processFeedback has processed a correction whose userEdit is one space:
\* the node it has created has the empty label.
C39_EmptyLabel ==
  /\ last.op = "processFeedback"
  /\ C2_Feedback # Undefined
  /\ C2_Feedback.userEdit = Str_Space
  /\ last.ret.updates.newNodesCreated = 1
  /\ \E node \in C20_NewNodes : node.source = "user_feedback" /\ node.label = <<>>

====
